---- MODULE Spec2Model ----
(***************************************************************************)
(* Incremental translation tracking of polyglot-react:                     *)
(*   - the sync pass autoTranslate (plugin/autoTranslate.ts) over the      *)
(*     translation store of plugin/translationTracker.ts;                  *)
(*   - the retry policy retryWithBackoff (utils/helpers.js) as used by     *)
(*     PolyglotAPIAdapter.translateBatch (adapters/PolyglotAPIAdapter.ts). *)
(* Synchronous stretches of code between two awaits are one atomic action. *)
(***************************************************************************)
EXTENDS Integers, Sequences, FiniteSets, TLC

(***************************************************************************)
(* Bounds of the model.                                                    *)
(***************************************************************************)
MaxPasses == 2
MaxTexts == 2
MaxCalls == 3
MaxInits == 2
MaxClock == 2

(***************************************************************************)
(* Source strings and target languages the passes draw their inputs from.  *)
(* "" is the empty string; "a" and "b" have the same MD5 digest; "c" has a *)
(* different digest that starts with the same 8 hex characters as that of  *)
(* "a".                                                                    *)
(***************************************************************************)
Texts == {"", "a", "b", "c"}
Langs == {"es", "fr"}

(* crypto.createHash("md5").update(text).digest("hex"), as a pair          *)
(* <<first 8 hex characters, remaining 24 hex characters>>.                *)
generateTextHash(text) ==
  CASE text = ""  -> <<"d41d8cd9", "x">>
    [] text = "a" -> <<"0cc175b9", "x">>
    [] text = "b" -> <<"0cc175b9", "x">>
    [] text = "c" -> <<"0cc175b9", "y">>

(* .substring(0, 8) of the hex digest                                      *)
shortHash(text) == generateTextHash(text)[1]

(* What the translation backend answers for one text and language: the     *)
(* empty text stays empty.                                                 *)
Tr(text, lang) == IF text = "" THEN "" ELSE lang \o ":" \o text

(***************************************************************************)
(* Helpers on sequences and finite maps (JS objects).                      *)
(***************************************************************************)
Range(s) == {s[i] : i \in DOMAIN s}

EmptyMap == [k \in {} |-> ""]

Put(f, k, v) == [x \in (DOMAIN f) \cup {k} |-> IF x = k THEN v ELSE f[x]]

Restrict(f, S) == [x \in S |-> f[x]]

(* Sequences over S without repetition, of length at most n                *)
RECURSIVE SeqsUpTo(_, _)
SeqsUpTo(S, n) ==
  IF n = 0 THEN {<<>>}
  ELSE LET shorter == SeqsUpTo(S, n - 1)
       IN shorter \cup {Append(s, e) : s \in shorter, e \in S}

DistinctSeqs(S, n) ==
  {s \in SeqsUpTo(S, n) : \A i, j \in DOMAIN s : i # j => s[i] # s[j]}

(* JS truthiness of obj[key] for a map of strings: present and non-empty   *)
Truthy(obj, key) == key \in DOMAIN obj /\ obj[key] # ""

(***************************************************************************)
(* State.                                                                  *)
(***************************************************************************)
VARIABLES
  disk,        \* the store file (.translation-store.json)
  prior,       \* the store file as it was when the pass was invoked
  locales,     \* language files written by this pass: lang -> text -> translated
  now,         \* Date.now(), one tick per pass
  pc,          \* position of the pass
  texts,       \* currentTexts of the pass (content of the texts file)
  langs,       \* targetLangs of the pass
  readOk,      \* whether the texts file can be read and parsed
  mem,         \* store.metadata / updatedStore.metadata (one shared object)
  loaded,      \* the store as loaded at the start of the pass
  changes,     \* result of detectChanges
  needing,     \* languagesNeedingTranslation
  idx,         \* position of the language loop in targetLangs
  work,        \* textsNeedingTranslation of the language being translated
  batch,       \* textsToTranslateObj handed to adapter.translateBatch
  calls,       \* adapter.translateBatch calls of this pass, in order
  returned,    \* lang -> Translation records the adapter resolved with
  failed,      \* languages whose adapter call was rejected in this pass
  merged,      \* languages whose results were merged in this pass
  progress,    \* onProgress invocations of this pass, in order
  saved,       \* "none" | "ok" | "failed": outcome of saveTranslationStore
  result,      \* "none" | "returned" | "completed": how the pass ended
  sameAsPrev,  \* this pass repeats the inputs of a clean previous pass
  retval,      \* what the promise of autoTranslate settled with
  errlog,      \* console.error calls of the language loop, in order
  rpc,         \* position of retryWithBackoff
  ri,          \* loop variable i of retryWithBackoff
  lastError,   \* lastError of retryWithBackoff
  attempts,    \* outcomes of the calls of fn so far, in order
  sleeps,      \* delays slept so far (ms), in order
  outcome,     \* what retryWithBackoff returned or threw
  tstore,      \* metadata of a store the tracker functions are called on
  tclock,      \* Date.now() at the calls of the tracker functions
  tcalls,      \* number of calls of tracker functions so far
  tlast,       \* the last call of a tracker function: arguments and result
  created,     \* whether the TranslatorImpl was constructed
  cacheEnabled,\* config.cache.enabled of the translator
  currentLang, \* TranslatorImpl.currentLang
  ready,       \* TranslatorImpl.ready
  error,       \* TranslatorImpl.error: whether an Error is held
  translationsMap, \* TranslatorImpl.translations: text -> translated
  initPromise, \* TranslatorImpl.initPromise: 0 (null) or the run it is the promise of
  inits,       \* the runs of doInitialize so far, in order of their start
  cache,       \* the cache storage: cache key -> cached value (unexpired)
  batchCalls,  \* adapter.translateBatch calls of doInitialize, in order
  entered,     \* number of times initialize was entered
  pcB,         \* position of a second pass that overlaps the first
  textsB,      \* currentTexts of the second pass
  memB,        \* the store object of the second pass
  changesB,    \* result of detectChanges in the second pass
  needingB,    \* languagesNeedingTranslation of the second pass
  idxB,        \* position of the second pass's language loop
  workB,       \* textsNeedingTranslation in the second pass
  batchB,      \* textsToTranslateObj of the second pass's adapter call
  returnedB,   \* lang -> Translation records the second pass obtained
  savedB,      \* "none" | "ok" | "failed": the second pass's save
  apc,         \* position of the request of the current attempt
  timers,      \* attempts (by number) whose timeout timer is armed
  overdue,     \* the request in flight has lasted longer than the timeout
  response,    \* the HTTP response whose body is being read
  ckind,       \* "none" | "localStorage" | "indexedDB": the browser cache in use
  entries,     \* the cache storage: key -> CachedData (value, timestamp, ttl)
  clock,       \* Date.now() of the browser
  lastSet,     \* key -> CachedData of the last set of the key that was stored
  gpc,         \* position of a get in progress
  gkey,        \* the key of the get in progress
  glast,       \* the last get that returned: key and value
  spc,         \* position of a set in progress
  sdata        \* key and CachedData of the set in progress

passVars == <<pc, texts, langs, readOk, mem, loaded, changes, needing, idx,
              work, batch, calls, returned, failed, merged, progress, saved,
              result, sameAsPrev, prior, retval, errlog>>
retryVars == <<rpc, ri, lastError, attempts, sleeps, outcome>>
trackerVars == <<tstore, tclock, tcalls, tlast>>
translatorVars == <<created, cacheEnabled, currentLang, ready, error,
                    translationsMap, initPromise, inits, cache, batchCalls,
                    entered>>
overlapVars == <<pcB, textsB, memB, changesB, needingB, idxB, workB, batchB,
                 returnedB, savedB>>
requestVars == <<apc, timers, overdue, response>>
cacheVars == <<ckind, entries, clock, lastSet, gpc, gkey, glast, spc, sdata>>
vars == <<disk, locales, now, passVars, retryVars, trackerVars,
         translatorVars, overlapVars, requestVars, cacheVars>>

NoChanges == [newTexts |-> <<>>, changedTexts |-> <<>>,
              unchangedTexts |-> <<>>, deletedHashes |-> {}]

(***************************************************************************)
(* translationTracker.ts                                                   *)
(***************************************************************************)

(* as loadTranslationStore, without the try/catch fallback for a file that *)
(* exists: what the file held is returned whatever its condition           *)
loadTranslationStore_ignoresFault(file) ==
  IF file.exists THEN file.metadata ELSE EmptyMap

(* loadTranslationStore: the metadata of the parsed file, or that of a     *)
(* fresh store when the file does not exist, or when readFileSync or       *)
(* JSON.parse throws (file.fault)                                          *)
loadTranslationStore(file) ==
  IF file.exists /\ file.fault = "none" THEN file.metadata ELSE EmptyMap

(* as detectChanges, with deleted records found by comparing texts: a key  *)
(* is reported when its record's text is not a current text                *)
detectChanges_staleByText(currentTexts, store) ==
  LET isNew(t) == generateTextHash(t) \notin DOMAIN store
      isChanged(t) == /\ generateTextHash(t) \in DOMAIN store
                      /\ store[generateTextHash(t)].text # t
      isSame(t) == /\ generateTextHash(t) \in DOMAIN store
                   /\ store[generateTextHash(t)].text = t
  IN [newTexts |-> SelectSeq(currentTexts, isNew),
      changedTexts |-> SelectSeq(currentTexts, isChanged),
      unchangedTexts |-> SelectSeq(currentTexts, isSame),
      deletedHashes |->
        {h \in DOMAIN store : store[h].text \notin Range(currentTexts)}]

(* as detectChanges, with the else before the last branch lost: a changed  *)
(* text is pushed to unchangedTexts as well                                *)
detectChanges_lostElse(currentTexts, store) ==
  LET isNew(t) == generateTextHash(t) \notin DOMAIN store
      isChanged(t) == /\ generateTextHash(t) \in DOMAIN store
                      /\ store[generateTextHash(t)].text # t
      isKnown(t) == generateTextHash(t) \in DOMAIN store
  IN [newTexts |-> SelectSeq(currentTexts, isNew),
      changedTexts |-> SelectSeq(currentTexts, isChanged),
      unchangedTexts |-> SelectSeq(currentTexts, isKnown),
      deletedHashes |->
        {h \in DOMAIN store :
           h \notin {generateTextHash(t) : t \in Range(currentTexts)}}]

(* detectChanges                                                           *)
detectChanges(currentTexts, store) ==
  LET currentHashes == {generateTextHash(t) : t \in Range(currentTexts)}
      isNew(t) == generateTextHash(t) \notin DOMAIN store
      isChanged(t) == /\ generateTextHash(t) \in DOMAIN store
                      /\ store[generateTextHash(t)].text # t
      isSame(t) == /\ generateTextHash(t) \in DOMAIN store
                   /\ store[generateTextHash(t)].text = t
  IN [newTexts |-> SelectSeq(currentTexts, isNew),
      changedTexts |-> SelectSeq(currentTexts, isChanged),
      unchangedTexts |-> SelectSeq(currentTexts, isSame),
      deletedHashes |-> {h \in DOMAIN store : h \notin currentHashes}]

(* as updateOne, with the record built anew on every call: the entries of  *)
(* the other languages are lost                                            *)
updateOne_replacesRecord(store, text, translations, targetLang, time) ==
  LET hash == generateTextHash(text)
      translated == IF Truthy(translations, text) THEN translations[text]
                    ELSE text
      rec == [hash |-> hash,
              text |-> IF hash \in DOMAIN store THEN store[hash].text
                       ELSE text,
              lastTranslated |-> time, translations |-> EmptyMap]
  IN Put(store, hash,
         [rec EXCEPT !.translations = Put(rec.translations, targetLang,
                                          translated)])

(* as updateOne, with the hash field of a new record cut to its first 8    *)
(* hex characters                                                          *)
updateOne_truncatedHashField(store, text, translations, targetLang, time) ==
  LET hash == generateTextHash(text)
      translated == IF Truthy(translations, text) THEN translations[text]
                    ELSE text
      rec == IF hash \in DOMAIN store THEN store[hash]
             ELSE [hash |-> <<hash[1], "">>, text |-> text,
                   lastTranslated |-> time, translations |-> EmptyMap]
  IN Put(store, hash,
         [rec EXCEPT !.translations = Put(rec.translations, targetLang,
                                          translated),
                     !.lastTranslated = time])

(* as updateOne, without the refresh of lastTranslated on a record that    *)
(* exists already                                                          *)
updateOne_noRefresh(store, text, translations, targetLang, time) ==
  LET hash == generateTextHash(text)
      translated == IF Truthy(translations, text) THEN translations[text]
                    ELSE text
      rec == IF hash \in DOMAIN store THEN store[hash]
             ELSE [hash |-> hash, text |-> text, lastTranslated |-> time,
                   translations |-> EmptyMap]
  IN Put(store, hash,
         [rec EXCEPT !.translations = Put(rec.translations, targetLang,
                                          translated)])

(* as updateOne, with an entry that is there already left as it is         *)
updateOne_keepsFirst(store, text, translations, targetLang, time) ==
  LET hash == generateTextHash(text)
      translated == IF Truthy(translations, text) THEN translations[text]
                    ELSE text
      rec == IF hash \in DOMAIN store THEN store[hash]
             ELSE [hash |-> hash, text |-> text, lastTranslated |-> time,
                   translations |-> EmptyMap]
  IN Put(store, hash,
         [rec EXCEPT !.translations =
                        IF Truthy(rec.translations, targetLang)
                        THEN rec.translations
                        ELSE Put(rec.translations, targetLang, translated),
                     !.lastTranslated = time])

(* one iteration of the loop of updateTranslationStore                     *)
updateOne(store, text, translations, targetLang, time) ==
  LET hash == generateTextHash(text)
      translated == IF Truthy(translations, text) THEN translations[text]
                    ELSE text
      rec == IF hash \in DOMAIN store THEN store[hash]
             ELSE [hash |-> hash, text |-> text, lastTranslated |-> time,
                   translations |-> EmptyMap]
  IN Put(store, hash,
         [rec EXCEPT !.translations = Put(rec.translations, targetLang,
                                          translated),
                     !.lastTranslated = time])

(* updateTranslationStore: the loop over texts, in order                   *)
RECURSIVE updateTranslationStore(_, _, _, _, _)
updateTranslationStore(store, txts, translations, targetLang, time) ==
  IF txts = <<>> THEN store
  ELSE updateTranslationStore(
         updateOne(store, Head(txts), translations, targetLang, time),
         Tail(txts), translations, targetLang, time)

(* cleanupDeletedTexts                                                     *)
cleanupDeletedTexts(store, deletedHashes) ==
  Restrict(store, (DOMAIN store) \ deletedHashes)

(* getExistingTranslations                                                 *)
getExistingTranslations(txts, store, targetLang) ==
  LET has(t) == /\ generateTextHash(t) \in DOMAIN store
                /\ Truthy(store[generateTextHash(t)].translations, targetLang)
  IN [t \in {u \in Range(txts) : has(u)} |->
        store[generateTextHash(t)].translations[targetLang]]

(***************************************************************************)
(* autoTranslate.ts: the synchronous pieces of autoTranslate               *)
(***************************************************************************)

(* as hasTranslation, with a test that the entry exists in place of the    *)
(* test that it is truthy                                                  *)
hasTranslation_anyEntry(store, text, lang) ==
  /\ generateTextHash(text) \in DOMAIN store
  /\ lang \in DOMAIN store[generateTextHash(text)].translations

(* the callback of currentTexts.every(...) and its negation in the loop    *)
hasTranslation(store, text, lang) ==
  /\ generateTextHash(text) \in DOMAIN store
  /\ Truthy(store[generateTextHash(text)].translations, lang)

hasAllTranslations(currentTexts, store, lang) ==
  \A t \in Range(currentTexts) : hasTranslation(store, t, lang)

languagesNeedingTranslation(currentTexts, store, targetLangs) ==
  LET incomplete(l) == ~hasAllTranslations(currentTexts, store, l)
  IN SelectSeq(targetLangs, incomplete)

textsNeedingTranslation(currentTexts, store, targetLang) ==
  LET lacks(t) == ~hasTranslation(store, t, targetLang)
  IN SelectSeq(currentTexts, lacks)

(* textsToTranslateObj: short hash -> text, a later text overwrites        *)
RECURSIVE textsToTranslateObj(_)
textsToTranslateObj(txts) ==
  IF txts = <<>> THEN EmptyMap
  ELSE LET n == Len(txts)
       IN Put(textsToTranslateObj(SubSeq(txts, 1, n - 1)),
              shortHash(txts[n]), txts[n])

(* needsTranslation                                                        *)
needsTranslation(chg, need) ==
  Len(chg.newTexts \o chg.changedTexts) > 0 \/ Len(need) > 0

(* PolyglotAPIAdapter.translateBatch on the object format: the backend's   *)
(* answer (key -> translated) mapped back to Translation records           *)
polyglotResult(textsObj, answer) ==
  {[original |-> textsObj[k],
    translated |-> IF Truthy(answer, k) THEN answer[k] ELSE textsObj[k]]
     : k \in DOMAIN textsObj}

(* translationMap: existing translations, then translation.original ->     *)
(* translation.translated for every returned record                        *)
translationMap(existing, translations) ==
  [t \in (DOMAIN existing) \cup {r.original : r \in translations} |->
     IF \E r \in translations : r.original = t
     THEN (CHOOSE r \in translations : r.original = t).translated
     ELSE existing[t]]

(* as exportOne, with the test metadata.translations[targetLang] replaced  *)
(* by a test that the entry exists: empty entries are exported too         *)
exportOne_keepsEmpty(store, targetLang) ==
  LET recs == {h \in DOMAIN store : targetLang \in DOMAIN store[h].translations}
  IN [t \in {store[h].text : h \in recs} |->
        store[CHOOSE h \in recs : store[h].text = t].translations[targetLang]]

(* exportTranslations: the mapping written to <lang>.json                  *)
exportOne(store, targetLang) ==
  LET recs == {h \in DOMAIN store : Truthy(store[h].translations, targetLang)}
  IN [t \in {store[h].text : h \in recs} |->
        store[CHOOSE h \in recs : store[h].text = t].translations[targetLang]]

(***************************************************************************)
(* The sync pass: autoTranslate                                            *)
(***************************************************************************)
NoFile == [exists |-> FALSE, fault |-> "none", metadata |-> EmptyMap]

(* the value undefined of an error variable, and no outcome yet            *)
Undefined == "undefined"
NoOutcome == [kind |-> "none"]

Init ==
  /\ disk = NoFile
  /\ locales = EmptyMap
  /\ now = 0
  /\ pc = "idle"
  /\ texts = <<>>
  /\ langs = <<>>
  /\ readOk = TRUE
  /\ mem = EmptyMap
  /\ loaded = EmptyMap
  /\ changes = NoChanges
  /\ needing = <<>>
  /\ idx = 0
  /\ work = <<>>
  /\ batch = EmptyMap
  /\ calls = <<>>
  /\ returned = EmptyMap
  /\ failed = {}
  /\ merged = {}
  /\ progress = <<>>
  /\ saved = "none"
  /\ result = "none"
  /\ sameAsPrev = FALSE
  /\ prior = NoFile
  /\ retval = [kind |-> "pending"]
  /\ errlog = <<>>
  /\ rpc = "idle"
  /\ ri = 0
  /\ lastError = Undefined
  /\ attempts = <<>>
  /\ sleeps = <<>>
  /\ outcome = NoOutcome
  /\ tstore = EmptyMap
  /\ tclock = 0
  /\ tcalls = 0
  /\ tlast = [op |-> "none"]
  /\ created = FALSE
  /\ cacheEnabled = TRUE
  /\ currentLang = "es"
  /\ ready = FALSE
  /\ error = FALSE
  /\ translationsMap = EmptyMap
  /\ initPromise = 0
  /\ inits = <<>>
  /\ cache = EmptyMap
  /\ batchCalls = <<>>
  /\ entered = 0
  /\ pcB = "idle"
  /\ textsB = <<>>
  /\ memB = EmptyMap
  /\ changesB = NoChanges
  /\ needingB = <<>>
  /\ idxB = 0
  /\ workB = <<>>
  /\ batchB = EmptyMap
  /\ returnedB = EmptyMap
  /\ savedB = "none"
  /\ apc = "idle"
  /\ timers = {}
  /\ overdue = FALSE
  /\ response = [kind |-> "none", status |-> 0, body |-> ""]
  /\ ckind = "none"
  /\ entries = EmptyMap
  /\ clock = 0
  /\ lastSet = EmptyMap
  /\ gpc = "idle"
  /\ gkey = ""
  /\ glast = [op |-> "none"]
  /\ spc = "idle"
  /\ sdata = [op |-> "none"]

(* targetLangs.indexOf(lang) + 1                                           *)
indexOf1(s, e) == CHOOSE i \in DOMAIN s : s[i] = e /\ \A j \in 1..(i - 1) : s[j] # e

(* The first position j >= from of the language loop that reaches          *)
(* adapter.translateBatch: the language needs translation and its          *)
(* textsNeedingTranslation is not empty; Len(langs) + 1 when the loop ends *)
RECURSIVE nextCall(_, _, _)
nextCall(store, from, need) ==
  IF from > Len(langs) THEN from
  ELSE IF /\ langs[from] \in Range(need)
          /\ textsNeedingTranslation(texts, store, langs[from]) # <<>>
       THEN from
       ELSE nextCall(store, from + 1, need)

(* autoTranslate lines 51-52: a pass is invoked and loads the store, then  *)
(* awaits the import of fs                                                 *)
Begin(ts, ls, ok) ==
  /\ pc \in {"idle", "done"}
  /\ now < MaxPasses
  /\ now' = now + 1
  /\ texts' = ts
  /\ langs' = ls
  /\ readOk' = ok
  /\ mem' = loadTranslationStore(disk)
  /\ loaded' = loadTranslationStore(disk)
  /\ pc' = "import"
  /\ changes' = NoChanges
  /\ needing' = <<>>
  /\ idx' = 0
  /\ work' = <<>>
  /\ batch' = EmptyMap
  /\ calls' = <<>>
  /\ returned' = EmptyMap
  /\ failed' = {}
  /\ merged' = {}
  /\ progress' = <<>>
  /\ saved' = "none"
  /\ result' = "none"
  /\ sameAsPrev' = (/\ pc = "done" /\ ts = texts /\ ls = langs
                    /\ readOk /\ ok /\ failed = {} /\ saved # "failed"
                    /\ disk.fault = "none")
  /\ prior' = disk
  /\ retval' = [kind |-> "pending"]
  /\ errlog' = <<>>
  /\ locales' = EmptyMap
  /\ UNCHANGED <<disk, retryVars, translatorVars, overlapVars, requestVars, cacheVars, trackerVars>>

(* a return statement of autoTranslate before the language loop            *)
ReturnEarly ==
  /\ pc' = "done"
  /\ result' = "returned"
  /\ retval' = [kind |-> "undefined"]
  /\ UNCHANGED <<disk, mem, idx, work, batch, calls, saved>>

(* as Advance, with the store also saved inside the language loop, after   *)
(* every language that was processed                                       *)
Advance_savesInLoop(store, from, need, chg) ==
  LET j == nextCall(store, from, need)
  IN IF j <= Len(langs)
     THEN LET w == textsNeedingTranslation(texts, store, langs[j])
          IN /\ pc' = "awaiting"
             /\ idx' = j
             /\ work' = w
             /\ batch' = textsToTranslateObj(w)
             /\ calls' = Append(calls, [lang |-> langs[j], work |-> w,
                                        texts |-> textsToTranslateObj(w)])
             /\ mem' = store
             /\ disk' = IF from > 1
                        THEN [exists |-> TRUE, fault |-> "none",
                              metadata |-> store]
                        ELSE disk
             /\ UNCHANGED <<saved, result, retval>>
     ELSE LET cleaned == IF chg.deletedHashes # {}
                         THEN cleanupDeletedTexts(store, chg.deletedHashes)
                         ELSE store
          IN /\ pc' = "exporting"
             /\ idx' = j
             /\ work' = <<>>
             /\ batch' = EmptyMap
             /\ mem' = cleaned
             /\ \E writeOk \in BOOLEAN :
                  /\ disk' = IF writeOk
                             THEN [exists |-> TRUE, fault |-> "none",
                                   metadata |-> cleaned]
                             ELSE disk
                  /\ saved' = IF writeOk THEN "ok" ELSE "failed"
             /\ UNCHANGED <<calls, result, retval>>

(* autoTranslate lines 131-182 and 219-238: the language loop runs from    *)
(* position from up to the next adapter.translateBatch call; when no       *)
(* language is left, deleted texts are cleaned up, the store is saved      *)
(* (the write may fail) and exportTranslations is called                   *)
Advance(store, from, need, chg) ==
  LET j == nextCall(store, from, need)
  IN IF j <= Len(langs)
     THEN LET w == textsNeedingTranslation(texts, store, langs[j])
          IN /\ pc' = "awaiting"
             /\ idx' = j
             /\ work' = w
             /\ batch' = textsToTranslateObj(w)
             /\ calls' = Append(calls, [lang |-> langs[j], work |-> w,
                                        texts |-> textsToTranslateObj(w)])
             /\ mem' = store
             /\ UNCHANGED <<disk, saved, result, retval>>
     ELSE LET cleaned == IF chg.deletedHashes # {}
                         THEN cleanupDeletedTexts(store, chg.deletedHashes)
                         ELSE store
          IN /\ pc' = "exporting"
             /\ idx' = j
             /\ work' = <<>>
             /\ batch' = EmptyMap
             /\ mem' = cleaned
             /\ \E writeOk \in BOOLEAN :
                  /\ disk' = IF writeOk
                             THEN [exists |-> TRUE, fault |-> "none",
                                   metadata |-> cleaned]
                             ELSE disk
                  /\ saved' = IF writeOk THEN "ok" ELSE "failed"
             /\ UNCHANGED <<calls, result, retval>>

(* as ReadTexts, with a texts file that cannot be read taken as an empty   *)
(* list of texts for which the pass goes on to cleanup, save and export    *)
ReadTexts_goesOnAfterReadError ==
  /\ pc = "import"
  /\ IF ~readOk
     THEN LET chg == detectChanges(<<>>, mem)
          IN /\ changes' = chg
             /\ needing' = <<>>
             /\ Advance(mem, Len(langs) + 1, <<>>, chg)
     ELSE IF Len(texts) = 0
     THEN ReturnEarly /\ UNCHANGED <<changes, needing>>
     ELSE LET chg == detectChanges(texts, mem)
              need == languagesNeedingTranslation(texts, mem, langs)
          IN /\ changes' = chg
             /\ needing' = need
             /\ IF needsTranslation(chg, need)
                THEN Advance(mem, 1, need, chg)
                ELSE ReturnEarly
  /\ UNCHANGED <<locales, now, texts, langs, readOk, loaded, returned, failed,
                 merged, progress, sameAsPrev, prior, errlog, retryVars,
                 translatorVars, overlapVars, requestVars, cacheVars, trackerVars>>

(* as ReadTexts, with cleanupDeletedTexts called before the language loop  *)
ReadTexts_cleansFirst ==
  /\ pc = "import"
  /\ IF ~readOk \/ Len(texts) = 0
     THEN ReturnEarly /\ UNCHANGED <<changes, needing>>
     ELSE LET chg == detectChanges(texts, mem)
              need == languagesNeedingTranslation(texts, mem, langs)
          IN /\ changes' = chg
             /\ needing' = need
             /\ IF needsTranslation(chg, need)
                THEN Advance(cleanupDeletedTexts(mem, chg.deletedHashes), 1,
                             need, chg)
                ELSE ReturnEarly
  /\ UNCHANGED <<locales, now, texts, langs, readOk, loaded, returned, failed,
                 merged, progress, sameAsPrev, prior, errlog, retryVars, translatorVars, overlapVars, requestVars, cacheVars, trackerVars>>

(* autoTranslate lines 54-128: read the texts file, detect changes, find   *)
(* the languages needing translation, and enter the language loop          *)
ReadTexts ==
  /\ pc = "import"
  /\ IF ~readOk \/ Len(texts) = 0
     THEN ReturnEarly /\ UNCHANGED <<changes, needing>>
     ELSE LET chg == detectChanges(texts, mem)
              need == languagesNeedingTranslation(texts, mem, langs)
          IN /\ changes' = chg
             /\ needing' = need
             /\ IF needsTranslation(chg, need)
                THEN Advance(mem, 1, need, chg)
                ELSE ReturnEarly
  /\ UNCHANGED <<locales, now, texts, langs, readOk, loaded, returned, failed,
                 merged, progress, sameAsPrev, prior, errlog, retryVars, translatorVars, overlapVars, requestVars, cacheVars, trackerVars>>

(* the sets of keys the backend may answer for a request: it translates    *)
(* every key it is sent                                                    *)
BackendAnswers(textsObj) == {DOMAIN textsObj}

(* as AdapterResolve, with currentTexts handed to updateTranslationStore   *)
(* in place of textsNeedingTranslation                                     *)
AdapterResolve_mergesAllTexts(answered) ==
  /\ pc = "awaiting"
  /\ LET targetLang == langs[idx]
         answer == [k \in answered |-> Tr(batch[k], targetLang)]
         translations == polyglotResult(batch, answer)
         rest == SelectSeq(texts, LAMBDA t : t \notin Range(work))
         existing == getExistingTranslations(rest, mem, targetLang)
         tmap == translationMap(existing, translations)
         updated == updateTranslationStore(mem, texts, tmap, targetLang, now)
     IN /\ returned' = Put(returned, targetLang, translations)
        /\ merged' = merged \cup {targetLang}
        /\ progress' = Append(progress,
                              [current |-> indexOf1(langs, targetLang),
                               total |-> Len(langs), lang |-> targetLang])
        /\ Advance(updated, idx + 1, needing, changes)
  /\ UNCHANGED <<locales, now, texts, langs, readOk, loaded, changes, needing,
                 failed, sameAsPrev, prior, errlog, retryVars, translatorVars, overlapVars, requestVars, cacheVars, trackerVars>>

(* as AdapterResolve, with the number of the callback handed to onProgress *)
(* in place of the position of the language in targetLangs                 *)
AdapterResolve_countsCallbacks(answered) ==
  /\ pc = "awaiting"
  /\ LET targetLang == langs[idx]
         answer == [k \in answered |-> Tr(batch[k], targetLang)]
         translations == polyglotResult(batch, answer)
         rest == SelectSeq(texts, LAMBDA t : t \notin Range(work))
         existing == getExistingTranslations(rest, mem, targetLang)
         tmap == translationMap(existing, translations)
         updated == updateTranslationStore(mem, work, tmap, targetLang, now)
     IN /\ returned' = Put(returned, targetLang, translations)
        /\ merged' = merged \cup {targetLang}
        /\ progress' = Append(progress,
                              [current |-> Len(progress) + 1,
                               total |-> Len(langs), lang |-> targetLang])
        /\ Advance(updated, idx + 1, needing, changes)
  /\ UNCHANGED <<locales, now, texts, langs, readOk, loaded, changes, needing,
                 failed, sameAsPrev, prior, errlog, retryVars, translatorVars, overlapVars, requestVars, cacheVars, trackerVars>>

(* adapter.translateBatch resolves (lines 184-213): the backend translated *)
(* the keys in answered; results are merged into the store                 *)
AdapterResolve(answered) ==
  /\ pc = "awaiting"
  /\ LET targetLang == langs[idx]
         answer == [k \in answered |-> Tr(batch[k], targetLang)]
         translations == polyglotResult(batch, answer)
         rest == SelectSeq(texts, LAMBDA t : t \notin Range(work))
         existing == getExistingTranslations(rest, mem, targetLang)
         tmap == translationMap(existing, translations)
         updated == updateTranslationStore(mem, work, tmap, targetLang, now)
     IN /\ returned' = Put(returned, targetLang, translations)
        /\ merged' = merged \cup {targetLang}
        /\ progress' = Append(progress,
                              [current |-> indexOf1(langs, targetLang),
                               total |-> Len(langs), lang |-> targetLang])
        /\ Advance(updated, idx + 1, needing, changes)
  /\ UNCHANGED <<locales, now, texts, langs, readOk, loaded, changes, needing,
                 failed, sameAsPrev, prior, errlog, retryVars, translatorVars, overlapVars, requestVars, cacheVars, trackerVars>>

(* as AdapterReject, but the rejection ends the language loop              *)
AdapterReject_abortsLoop ==
  /\ pc = "awaiting"
  /\ failed' = failed \cup {langs[idx]}
  /\ errlog' = Append(errlog, langs[idx])
  /\ Advance(mem, Len(langs) + 1, needing, changes)
  /\ UNCHANGED <<locales, now, texts, langs, readOk, loaded, changes, needing,
                 returned, merged, progress, sameAsPrev, prior, retryVars, translatorVars, overlapVars, requestVars, cacheVars, trackerVars>>

(* as AdapterReject, with a fallback in the catch block that records the   *)
(* source texts of the work set as their translations                      *)
AdapterReject_recordsOriginals ==
  /\ pc = "awaiting"
  /\ failed' = failed \cup {langs[idx]}
  /\ errlog' = Append(errlog, langs[idx])
  /\ Advance(updateTranslationStore(mem, work, EmptyMap, langs[idx], now),
             idx + 1, needing, changes)
  /\ UNCHANGED <<locales, now, texts, langs, readOk, loaded, changes, needing,
                 returned, merged, progress, sameAsPrev, prior, retryVars, translatorVars, overlapVars, requestVars, cacheVars,
                 trackerVars>>

(* as AdapterReject, with the error thrown again from the catch block: the *)
(* promise of autoTranslate rejects                                        *)
AdapterReject_rethrows ==
  /\ pc = "awaiting"
  /\ failed' = failed \cup {langs[idx]}
  /\ errlog' = Append(errlog, langs[idx])
  /\ pc' = "done"
  /\ result' = "thrown"
  /\ retval' = [kind |-> "rejected"]
  /\ UNCHANGED <<disk, mem, idx, work, batch, calls, saved>>
  /\ UNCHANGED <<locales, now, texts, langs, readOk, loaded, changes, needing,
                 returned, merged, progress, sameAsPrev, prior, retryVars, translatorVars, overlapVars, requestVars, cacheVars,
                 trackerVars>>

(* adapter.translateBatch rejects (lines 214-216): logged, next language   *)
AdapterReject ==
  /\ pc = "awaiting"
  /\ failed' = failed \cup {langs[idx]}
  /\ errlog' = Append(errlog, langs[idx])
  /\ Advance(mem, idx + 1, needing, changes)
  /\ UNCHANGED <<locales, now, texts, langs, readOk, loaded, changes, needing,
                 returned, merged, progress, sameAsPrev, prior, retryVars, translatorVars, overlapVars, requestVars, cacheVars, trackerVars>>

(* exportTranslations (lines 248-273): reloads the store file and writes   *)
(* one language file per target language; autoTranslate then returns       *)
Export ==
  /\ pc = "exporting"
  /\ LET store == loadTranslationStore(disk)
     IN locales' = [l \in Range(langs) |-> exportOne(store, l)]
  /\ pc' = "done"
  /\ result' = "completed"
  /\ retval' = [kind |-> "undefined"]
  /\ UNCHANGED <<disk, now, texts, langs, readOk, mem, loaded, changes,
                 needing, idx, work, batch, calls, returned, failed, merged,
                 progress, saved, sameAsPrev, prior, errlog, retryVars, translatorVars, overlapVars, requestVars, cacheVars, trackerVars>>

(* Between two passes the store file is damaged from outside: it can no    *)
(* longer be read (readFileSync throws) or its content is no longer JSON   *)
(* (JSON.parse throws); metadata keeps what the file held before, which no *)
(* read returns any more. What the last pass left behind is no longer      *)
(* there to be observed: the position goes back to "idle".                 *)
StoreFileDamaged(fault) ==
  /\ pc \in {"idle", "done"}
  /\ now < MaxPasses
  /\ disk.fault = "none"
  /\ disk' = [exists |-> TRUE, fault |-> fault, metadata |-> disk.metadata]
  /\ pc' = "idle"
  /\ UNCHANGED <<locales, now, texts, langs, readOk, mem, loaded, changes,
                 needing, idx, work, batch, calls, returned, failed, merged,
                 progress, saved, result, sameAsPrev, prior, retval, errlog,
                 retryVars, translatorVars, overlapVars, requestVars, cacheVars, trackerVars>>

(* a record is valid when its key is its hash field and that hash is the   *)
(* content hash of its text                                                *)
ValidRecord(store, h) ==
  store[h].hash = h /\ generateTextHash(store[h].text) = h

(* Records a store file can hold after it was edited by hand or mangled:   *)
(* filed under the hash of one text, they carry another text               *)
CorruptRecords ==
  {[hash |-> generateTextHash(k), text |-> "c", lastTranslated |-> 0,
    translations |-> [l \in Langs |-> Tr("c", l)]] : k \in {"", "a"}}

(* Between two passes the store file is edited from outside: it still      *)
(* parses, and it holds one record whose hash is not the content hash of   *)
(* its text                                                                *)
StoreFileEdited(rec) ==
  /\ pc \in {"idle", "done"}
  /\ now < MaxPasses
  /\ disk.fault = "none"
  /\ \A h \in DOMAIN disk.metadata : ValidRecord(disk.metadata, h)
  /\ disk' = [exists |-> TRUE, fault |-> "none",
              metadata |-> Put(disk.metadata, rec.hash, rec)]
  /\ pc' = "idle"
  /\ UNCHANGED <<locales, now, texts, langs, readOk, mem, loaded, changes,
                 needing, idx, work, batch, calls, returned, failed, merged,
                 progress, saved, result, sameAsPrev, prior, retval, errlog,
                 retryVars, translatorVars, overlapVars, requestVars, cacheVars, trackerVars>>

(* Array.from(new Set(allExtracted)).sort(): the texts file holds a        *)
(* duplicate-free list in the order of Array.prototype.sort                *)
sortRank(t) == CASE t = "" -> 0 [] t = "a" -> 1 [] t = "b" -> 2 [] t = "c" -> 3

TextLists ==
  {s \in DistinctSeqs(Texts, MaxTexts) :
     \A i, j \in DOMAIN s : i < j => sortRank(s[i]) < sortRank(s[j])}
(* targetLangs: any list of distinct target languages                     *)
LangLists == DistinctSeqs(Langs, Cardinality(Langs))

Next ==
  \/ \E ts \in TextLists, ls \in LangLists : Begin(ts, ls, TRUE)
  \/ \E ls \in LangLists : Begin(<<>>, ls, FALSE)
  \/ ReadTexts
  \/ \E answered \in BackendAnswers(batch) : AdapterResolve(answered)
  \/ AdapterReject
  \/ Export

Spec == Init /\ [][Next]_vars

(* Passes of one plugin configuration (targetLangs does not change), with  *)
(* a store file that can be damaged or edited between two passes           *)
ConfiguredLangs == <<"es", "fr">>

NextRecover ==
  \/ \E ts \in TextLists : Begin(ts, ConfiguredLangs, TRUE)
  \/ ReadTexts
  \/ \E answered \in BackendAnswers(batch) : AdapterResolve(answered)
  \/ AdapterReject
  \/ Export
  \/ \E fault \in {"unreadable", "unparseable"} : StoreFileDamaged(fault)
  \/ \E rec \in CorruptRecords : StoreFileEdited(rec)

SpecRecover == Init /\ [][NextRecover]_vars

(***************************************************************************)
(* Properties of the sync pass                                             *)
(***************************************************************************)
Values(f) == {f[k] : k \in DOMAIN f}

(* the language loop of the pass is over (cleanup and save were reached)   *)
LoopOver == pc \in {"exporting", "done"} /\ result # "returned"

(* the calls of this pass made for language l                              *)
CallsFor(l) == {i \in DOMAIN calls : calls[i].lang = l}

(* C1: a pass that repeats the texts and languages of the previous pass,   *)
(* in which every adapter call succeeded and the save did not fail, makes  *)
(* no adapter.translateBatch call.                                         *)
C1_SecondRunMakesNoCalls == sameAsPrev => calls = <<>>

(* C2: after a pass has returned, the store file holds no record whose     *)
(* original text is absent from the current texts.                         *)
C2_NoStaleRecordAfterPass ==
  (pc = "done" /\ readOk) =>
     \A h \in DOMAIN disk.metadata : disk.metadata[h].text \in Range(texts)

(* C3: in a pass where the adapter call of some language was rejected,     *)
(* every language needing translation was still processed (rejected or     *)
(* merged), and the saved store holds, for every text of the work set of   *)
(* a merged language, an entry for that language: the translated text the  *)
(* adapter returned for it (when it returned a non-empty one and no other  *)
(* text of the work set has the same hash).                                *)
C3_PartialFailureIsolation ==
  (LoopOver /\ failed # {}) =>
     /\ Range(needing) \subseteq (failed \cup merged)
     /\ saved = "ok" =>
          \A i \in DOMAIN calls :
            LET l == calls[i].lang
            IN l \in merged =>
                 \A t \in Range(calls[i].work) :
                   LET h == generateTextHash(t)
                   IN /\ h \in DOMAIN disk.metadata
                      /\ l \in DOMAIN disk.metadata[h].translations
                      /\ \A r \in returned[l] :
                           (/\ r.original = t
                            /\ r.translated # ""
                            /\ \A u \in Range(calls[i].work) :
                                 generateTextHash(u) = h => u = t)
                           => disk.metadata[h].translations[l] = r.translated

(* C3 witness: the first target language was rejected, the second one was  *)
(* merged after it, and the store was saved.                               *)
C3_Witness ==
  /\ pc = "done" /\ saved = "ok" /\ Len(langs) = 2
  /\ langs[1] \in failed /\ langs[2] \in merged
  /\ Len(calls) = 2 /\ Len(calls[2].work) = 2

(* C4: when writing the store file failed, the pass does not complete as   *)
(* a successful one and writes no language file.                           *)
C4_SaveFailureSurfaced ==
  saved = "failed" => (result # "completed" /\ locales = EmptyMap)

(* C5 (a): no batch contains a text that has a non-empty translation for   *)
(* the language in the loaded store under an identical original text;      *)
(* (b): no call is made with an empty batch.                               *)
C5_BatchOnlyMissing ==
  \A i \in DOMAIN calls :
    /\ calls[i].texts # EmptyMap
    /\ \A t \in Values(calls[i].texts) :
         ~(/\ hasTranslation(loaded, t, calls[i].lang)
           /\ loaded[generateTextHash(t)].text = t)

(* t0 was added to a corpus that is fully translated for the languages of  *)
(* the pass: the loaded store has no record of t0, and every other current *)
(* text has its own record with a translation for every target language    *)
AddedToTranslatedCorpus(t0) ==
  /\ t0 \in Range(texts)
  /\ \A h \in DOMAIN loaded : loaded[h].text # t0
  /\ \A t \in Range(texts) \ {t0} :
       /\ generateTextHash(t) \in DOMAIN loaded
       /\ loaded[generateTextHash(t)].text = t
       /\ \A l \in Range(langs) : hasTranslation(loaded, t, l)

(* C5: (a) and (b), and after one text was added to a fully translated     *)
(* corpus every target language gets exactly one call, whose batch         *)
(* contains exactly that text.                                             *)
C5_MinimalBatches ==
  /\ C5_BatchOnlyMissing
  /\ (pc = "done" /\ readOk) =>
       \A t0 \in Texts :
         AddedToTranslatedCorpus(t0) =>
           \A l \in Range(langs) :
             /\ Cardinality(CallsFor(l)) = 1
             /\ \A i \in CallsFor(l) : Values(calls[i].texts) = {t0}

(* C6: every new or changed text is in the work set of every target        *)
(* language and in the batch sent for it; after a merge that is saved, the *)
(* record under its hash carries the text and the returned translation.    *)
C6_NewAndChangedAreTranslated ==
  (pc = "done" /\ readOk /\ texts # <<>>) =>
     \A t \in Range(changes.newTexts \o changes.changedTexts) :
       \A l \in Range(langs) :
         /\ \E i \in CallsFor(l) : /\ t \in Range(calls[i].work)
                                   /\ t \in Values(calls[i].texts)
         /\ (l \in merged /\ saved = "ok") =>
              LET h == generateTextHash(t)
              IN /\ h \in DOMAIN disk.metadata
                 /\ disk.metadata[h].text = t
                 /\ \E r \in returned[l] :
                      /\ r.original = t
                      /\ disk.metadata[h].translations[l] = r.translated

(* l is a language added on a fully translated corpus: no record of the    *)
(* loaded store has an entry for l, and every current text has its own     *)
(* record with a translation for every other target language               *)
AddedLanguage(l) ==
  /\ l \in Range(langs)
  /\ texts # <<>>
  /\ \A h \in DOMAIN loaded : l \notin DOMAIN loaded[h].translations
  /\ \A t \in Range(texts) :
       /\ generateTextHash(t) \in DOMAIN loaded
       /\ loaded[generateTextHash(t)].text = t
       /\ \A k \in Range(langs) \ {l} : hasTranslation(loaded, t, k)

(* C7: for a language added on a fully translated corpus, the pass sends   *)
(* all current texts to the adapter for that language, and calls the       *)
(* adapter for no other language.                                          *)
C7_NewLanguageWholeCorpus ==
  (pc = "done" /\ readOk) =>
     \A l \in Langs :
       AddedLanguage(l) =>
         /\ \E i \in CallsFor(l) : Values(calls[i].texts) = Range(texts)
         /\ \A i \in DOMAIN calls : calls[i].lang = l

(* C13: as long as saveTranslationStore has not written the store file in  *)
(* this pass (the pass is still running, it returned early, or the write   *)
(* failed), the store file is what it was when the pass was invoked; and   *)
(* the store file changes in one step only: the save, once per pass.       *)
C13_StoreFileWrittenOnlyBySave ==
  /\ [](saved # "ok" => disk = prior)
  /\ [][disk' # disk => (saved = "none" /\ saved' = "ok")]_vars

(* C13 witness: a pass is awaiting the adapter for its second language;    *)
(* the store in memory has the first language merged and differs from the  *)
(* loaded one, while the store file still holds its earlier records.       *)
C13_Witness ==
  /\ pc = "awaiting" /\ idx = 2 /\ merged # {}
  /\ mem # loaded
  /\ prior.exists /\ prior.metadata # EmptyMap
  /\ disk = prior

(* C14 as claimed: a pass does not throw and settles with a summary that   *)
(* names the languages that succeeded and those that failed.               *)
C14_SummaryReturned ==
  pc = "done" =>
     /\ result # "thrown"
     /\ retval.kind = "summary"
     /\ retval.succeeded = merged
     /\ retval.failed = failed

(* C14 amended: a pass never throws because of a rejected adapter call: it *)
(* logs the error with the language and goes on with the next language.    *)
(* Its promise resolves with no value; the languages that failed are the   *)
(* ones in the error log, the languages that were merged are the ones the  *)
(* progress callback was called for, no language is in both, and in a pass *)
(* that completed every language needing translation is in one of them.    *)
C14_ProviderErrorLoggedNotThrown ==
  /\ result # "thrown"
  /\ Range(errlog) = failed
  /\ {progress[i].lang : i \in DOMAIN progress} = merged
  /\ failed \cap merged = {}
  /\ pc = "done" =>
       /\ retval = [kind |-> "undefined"]
       /\ failed # {} => (result = "completed" /\ saved # "none")
       /\ result = "completed" => Range(needing) = failed \cup merged

(* C14 witness: a pass completed in which the adapter call of the first    *)
(* language was rejected and that of the second was merged.                *)
C14_Witness ==
  /\ pc = "done" /\ result = "completed" /\ Len(langs) = 2
  /\ errlog = <<langs[1]>> /\ merged = {langs[2]}

(* C15: when a pass has exported, the language file of every target        *)
(* language L maps the original text of every record of the store file     *)
(* that has a non-empty translations[L] to that entry, has no other key,   *)
(* and has no key for a record without a non-empty translations[L].        *)
C15_ExportIsProjectionOfStore ==
  (pc = "done" /\ result = "completed") =>
     LET store == loadTranslationStore(disk)
     IN \A l \in Range(langs) :
          /\ l \in DOMAIN locales
          /\ \A h \in DOMAIN store :
               IF Truthy(store[h].translations, l)
               THEN /\ store[h].text \in DOMAIN locales[l]
                    /\ locales[l][store[h].text] = store[h].translations[l]
               ELSE store[h].text \notin DOMAIN locales[l]
          /\ \A t \in DOMAIN locales[l] :
               \E h \in DOMAIN store : store[h].text = t

(* C15 witness: a language file with an entry was exported from a saved    *)
(* store in which another record has no entry for that language.           *)
C15_Witness ==
  /\ pc = "done" /\ result = "completed" /\ saved = "ok"
  /\ \E l \in Range(langs) :
       /\ locales[l] # EmptyMap
       /\ \E h \in DOMAIN disk.metadata :
            l \notin DOMAIN disk.metadata[h].translations

(* the texts that are in the work set of some adapter call of this pass    *)
InSomeWorkSet == UNION {Range(calls[i].work) : i \in DOMAIN calls}

(* C18: in the store a pass saved, every record that was in the loaded     *)
(* store and is not stale has, for every language whose adapter call was   *)
(* rejected in the pass, the translations entry it had when loaded: the    *)
(* same value, or none.                                                    *)
C18_FailedLanguageUntouched ==
  (LoopOver /\ saved = "ok") =>
     \A l \in failed :
       \A h \in (DOMAIN loaded) \ changes.deletedHashes :
         /\ h \in DOMAIN disk.metadata
         /\ (l \in DOMAIN disk.metadata[h].translations)
              <=> (l \in DOMAIN loaded[h].translations)
         /\ l \in DOMAIN loaded[h].translations =>
              disk.metadata[h].translations[l] = loaded[h].translations[l]

(* C18 witness: the call of a language was rejected in a pass that merged  *)
(* another language and saved; a record of the loaded store kept the       *)
(* entry it had for the rejected language.                                 *)
C18_Witness ==
  /\ pc = "done" /\ saved = "ok" /\ merged # {}
  /\ \E l \in failed :
       \E h \in DOMAIN loaded \cap DOMAIN disk.metadata :
         /\ l \in DOMAIN loaded[h].translations
         /\ disk.metadata[h].translations[l] = loaded[h].translations[l]

(* C19 as claimed: after a pass, every record of the loaded store whose     *)
(* text is in no work set of the pass is in the store file as it was       *)
(* loaded (translations and lastTranslated included).                      *)
C19_OutsideWorkSetsUntouched ==
  (pc = "done" /\ readOk) =>
     \A h \in DOMAIN loaded :
       loaded[h].text \notin InSomeWorkSet =>
          (h \in DOMAIN disk.metadata /\ disk.metadata[h] = loaded[h])

(* C19 amended: after a pass, every record of the loaded store whose text  *)
(* is a current text and is in no work set of the pass is in the store     *)
(* file as it was loaded (translations and lastTranslated included).       *)
C19_CurrentOutsideWorkSetsUntouched ==
  (pc = "done" /\ readOk) =>
     \A h \in DOMAIN loaded :
       (loaded[h].text \in Range(texts)
          /\ loaded[h].text \notin InSomeWorkSet) =>
          (h \in DOMAIN disk.metadata /\ disk.metadata[h] = loaded[h])

(* C19 witness: a pass translated an added text for a language, merged and *)
(* saved, while the record of an older current text, translated in an      *)
(* earlier pass, was in no work set and kept its lastTranslated.           *)
C19_Witness ==
  /\ pc = "done" /\ saved = "ok" /\ merged # {}
  /\ \E h \in DOMAIN loaded :
       /\ loaded[h].text \in Range(texts)
       /\ loaded[h].text \notin InSomeWorkSet
       /\ h \in DOMAIN disk.metadata
       /\ disk.metadata[h].lastTranslated < now
       /\ \E k \in DOMAIN disk.metadata : disk.metadata[k].lastTranslated = now

(* C20: in the store in memory and in the store file, every key of the     *)
(* records map is the hash field of its record, and that hash is the       *)
(* content hash of the record's text.                                      *)
C20_KeysAreContentHashes ==
  \A store \in {mem, disk.metadata} :
    \A h \in DOMAIN store :
      /\ store[h].hash = h
      /\ generateTextHash(store[h].text) = h

(* C20 witness: the saved store holds two records, one of them created for *)
(* a text that is no longer current and since merged into for a current    *)
(* text with the same hash.                                                *)
C20_Witness ==
  /\ pc = "done" /\ saved = "ok"
  /\ Cardinality(DOMAIN disk.metadata) = 2
  /\ \E h \in DOMAIN disk.metadata :
       /\ disk.metadata[h].text \notin Range(texts)
       /\ disk.metadata[h].lastTranslated = now

(* C21: after a pass that ran to its end and saved, the store file holds   *)
(* no record whose hash is not the content hash of its text, and every key *)
(* of an exported language file is the text of a valid record of the store *)
(* file.                                                                   *)
C21_CorruptRecordDropped ==
  (pc = "done" /\ result = "completed" /\ saved = "ok") =>
     /\ \A h \in DOMAIN disk.metadata : ValidRecord(disk.metadata, h)
     /\ \A l \in DOMAIN locales :
          \A t \in DOMAIN locales[l] :
            \E h \in DOMAIN disk.metadata :
              ValidRecord(disk.metadata, h) /\ disk.metadata[h].text = t

(* C23: in a pass that read its texts, a target language is out of the     *)
(* languages needing translation, and no adapter call is made for it, if   *)
(* and only if every current text has a record under its content hash in   *)
(* the loaded store whose translations hold a non-empty entry for it.      *)
C23_CompleteIffAllTranslated ==
  (pc = "done" /\ readOk) =>
     \A l \in Range(langs) :
       LET complete ==
             \A t \in Range(texts) :
               /\ generateTextHash(t) \in DOMAIN loaded
               /\ l \in DOMAIN loaded[generateTextHash(t)].translations
               /\ loaded[generateTextHash(t)].translations[l] # ""
       IN /\ (l \notin Range(needing)) <=> complete
          /\ (CallsFor(l) = {}) <=> complete

(* C23 witness: a pass with two current texts in which the first target    *)
(* language was complete and got no call, and the second was not and was   *)
(* called for both texts.                                                  *)
C23_Witness ==
  /\ pc = "done" /\ readOk /\ Len(texts) = 2 /\ Len(langs) = 2
  /\ CallsFor(langs[1]) = {}
  /\ Len(calls) = 1 /\ calls[1].lang = langs[2] /\ Len(calls[1].work) = 2

(* C24: in the store in memory and in the store file, every value of every *)
(* record's translations is a non-empty string.                            *)
C24_TranslationsNonEmpty ==
  \A store \in {mem, disk.metadata} :
    \A h \in DOMAIN store :
      \A l \in DOMAIN store[h].translations : store[h].translations[l] # ""

(* C27: for every language that is not a target language of the pass, a    *)
(* record of the store in memory or of the store file that was loaded by   *)
(* the pass has the entry it had when loaded (the same value, or none),    *)
(* and a record that was not loaded has no entry.                          *)
C27_OtherLanguagesUntouched ==
  \A store \in {mem, disk.metadata} :
    \A h \in DOMAIN store :
      \A l \in Langs \ Range(langs) :
        IF h \in DOMAIN loaded /\ l \in DOMAIN loaded[h].translations
        THEN /\ l \in DOMAIN store[h].translations
             /\ store[h].translations[l] = loaded[h].translations[l]
        ELSE l \notin DOMAIN store[h].translations

(* C27 witness: a pass merged a target language into a record that holds   *)
(* an entry for a language that is not a target of the pass, and saved.    *)
C27_Witness ==
  /\ pc = "done" /\ saved = "ok" /\ merged # {}
  /\ \E h \in DOMAIN loaded \cap DOMAIN disk.metadata :
       /\ disk.metadata[h].lastTranslated = now
       /\ loaded[h].lastTranslated < now
       /\ \E l \in Langs \ Range(langs) :
            /\ l \in DOMAIN loaded[h].translations
            /\ disk.metadata[h].translations[l] = loaded[h].translations[l]

(* C28: a pass that loaded the store and computed the change set has, when *)
(* it returns, cleaned up the stale records and performed the save.        *)
C28_PassCleansAndPersists ==
  (pc = "done" /\ readOk /\ texts # <<>>) =>
     /\ saved # "none"
     /\ DOMAIN mem \cap changes.deletedHashes = {}

(* C29: while the language loop of a pass runs, every loaded record is     *)
(* still in the store in memory; records leave the store in memory only in *)
(* the step that ends the loop and saves, none of them is the record of a  *)
(* current string, and a saved store file is the cleaned store.            *)
C29_CleanupAfterLoopBeforeSave ==
  /\ [](pc \in {"import", "awaiting"} => DOMAIN loaded \subseteq DOMAIN mem)
  /\ []((pc \in {"exporting", "done"} /\ saved = "ok") =>
          /\ disk.metadata = mem
          /\ DOMAIN mem \cap changes.deletedHashes = {})
  /\ [][(pc' # "import" /\ DOMAIN mem \ DOMAIN mem' # {}) =>
          /\ pc' = "exporting" /\ saved = "none" /\ saved' # "none"
          /\ \A t \in Range(texts) :
               generateTextHash(t) \notin DOMAIN mem \ DOMAIN mem']_vars

(* C29 witness: a pass merged a language, then removed a stale record, and *)
(* saved the store without it.                                             *)
C29_Witness ==
  /\ pc = "done" /\ saved = "ok" /\ merged # {}
  /\ changes.deletedHashes # {}
  /\ changes.deletedHashes \subseteq DOMAIN loaded
  /\ DOMAIN disk.metadata \cap changes.deletedHashes = {}
  /\ \A t \in Range(texts) : generateTextHash(t) \in DOMAIN disk.metadata

(* C30: after the adapter call for a language resolved, every string of    *)
(* the call's work set that has an entry recorded for the language is the  *)
(* original of a pair the adapter returned, and the entry is that pair's   *)
(* translated text.                                                        *)
C30_RecordedIsReturned ==
  \A i \in DOMAIN calls :
    LET l == calls[i].lang
    IN l \in merged =>
         \A t \in Range(calls[i].work) :
           LET h == generateTextHash(t)
           IN (h \in DOMAIN mem /\ l \in DOMAIN mem[h].translations) =>
                \E r \in returned[l] :
                  r.original = t /\ mem[h].translations[l] = r.translated

(* C31: in every adapter call of a pass, the keyed batch holds every       *)
(* string of the work set under a key of its own: as many keys as work-set *)
(* strings, and the values are the work set.                               *)
C31_EachWorkStringOwnKey ==
  \A i \in DOMAIN calls :
    /\ Cardinality(DOMAIN calls[i].texts) = Len(calls[i].work)
    /\ Values(calls[i].texts) = Range(calls[i].work)

(* what onProgress is called with for the language at position i          *)
ProgressOf(i) == [current |-> i, total |-> Len(langs), lang |-> langs[i]]

C34_FailedRetriedUntilComplete ==
  /\ (pc \in {"exporting", "done"} /\ saved = "ok") =>
        \A l \in failed : ~hasAllTranslations(texts, disk.metadata, l)
  /\ (pc = "done" /\ result = "completed" /\ saved = "ok" /\ failed = {}) =>
        \A l \in Range(langs) : hasAllTranslations(texts, disk.metadata, l)

(* C37: a pass whose texts file could not be read or parsed has returned   *)
(* (its promise resolved) without an adapter call, without a write of the  *)
(* store file and without a language file written.                         *)
C37_UnreadableTextsFileEndsPass ==
  (pc = "done" /\ ~readOk) =>
     /\ calls = <<>>
     /\ saved = "none" /\ disk = prior
     /\ locales = EmptyMap
     /\ result = "returned" /\ retval = [kind |-> "undefined"]

(* C37 witness: such a pass has ended over a store file that holds records *)
C37_Witness ==
  /\ pc = "done" /\ ~readOk /\ retval = [kind |-> "undefined"]
  /\ prior.exists /\ prior.metadata # EmptyMap /\ disk = prior

(* C38: when a pass has completed, the language file of every target       *)
(* language is the projection of the store the pass holds in memory after  *)
(* merges and cleanup, whether the save succeeded or failed.               *)
C38_ExportIsProjectionOfMemory ==
  (pc = "done" /\ result = "completed") =>
     locales = [l \in Range(langs) |-> exportOne(mem, l)]

(* C12: a pass invoked while the store file is absent, unreadable or not   *)
(* parseable loads the fresh empty store and goes on as a first run:       *)
(* detectChanges reports every current text as new, none as changed or     *)
(* unchanged, no hash as deleted, and the work set of every adapter call   *)
(* is the whole list of current texts.                                     *)
C12_LoadFallsBackToEmptyStore ==
  (pc # "idle" /\ (~prior.exists \/ prior.fault # "none")) =>
     /\ loaded = EmptyMap
     /\ (pc # "import" /\ texts # <<>>) =>
          /\ changes = [newTexts |-> texts, changedTexts |-> <<>>,
                        unchangedTexts |-> <<>>, deletedHashes |-> {}]
          /\ calls # <<>>
          /\ \A i \in DOMAIN calls : calls[i].work = texts

(* C12 witness: the store file held records and was no longer parseable    *)
(* when the pass was invoked; the pass translated two texts and saved.     *)
C12_Witness ==
  /\ pc = "done" /\ saved = "ok" /\ result = "completed"
  /\ prior.fault = "unparseable" /\ prior.metadata # EmptyMap
  /\ Len(texts) = 2 /\ merged # {}

(***************************************************************************)
(* The retry policy: retryWithBackoff(fn, 3, 1000) around one request of   *)
(* PolyglotAPIAdapter.translateBatch                                       *)
(***************************************************************************)
maxRetries == 3
baseDelay == 1000

(* what one request can meet: an HTTP response, a network failure of       *)
(* fetch, or the abort of the request by the timeout timer                 *)
Responses ==
  {[kind |-> "http", status |-> 200, body |-> b] : b \in {"t1", "t2"}}
    \cup {[kind |-> "http", status |-> st, body |-> ""]
            : st \in {401, 402, 429, 500}}
    \cup {[kind |-> "network", status |-> 0, body |-> ""],
          [kind |-> "abort", status |-> 0, body |-> ""]}

(* the function passed to retryWithBackoff (PolyglotAPIAdapter lines       *)
(* 43-157): what one attempt returns or throws                             *)
polyglotAttempt(resp) ==
  IF resp.kind = "abort"
    THEN [ok |-> FALSE, status |-> 0, value |-> "",
          error |-> "Polyglot API request timeout"]
  ELSE IF resp.kind = "network"
    THEN [ok |-> FALSE, status |-> 0, value |-> "", error |-> "fetch failed"]
  ELSE IF resp.status >= 200 /\ resp.status <= 299
    THEN [ok |-> TRUE, status |-> resp.status, value |-> resp.body,
          error |-> ""]
  ELSE [ok |-> FALSE, status |-> resp.status, value |-> "",
        error |-> CASE resp.status = 401 -> "Invalid API key"
                    [] resp.status = 429 -> "Rate limit exceeded"
                    [] resp.status = 402 -> "Payment required"
                    [] OTHER -> "Polyglot API error"]

(* as retryLoopGuard, with the bound off by one                            *)
retryLoopGuard_offByOne(i) == i <= maxRetries

(* the condition of the for loop of retryWithBackoff                       *)
retryLoopGuard(i) == i < maxRetries

(* as backoffDelay, with the arguments of Math.pow swapped                 *)
backoffDelay_powSwapped(i) == baseDelay * (i ^ 2)

(* const delay = baseDelay * Math.pow(2, i)                                *)
backoffDelay(i) == baseDelay * (2 ^ i)

(* the for loop of retryWithBackoff moves to iteration i: either fn is     *)
(* called again, or the loop is over and line 52 throws                    *)
Iterate(i, err) ==
  /\ ri' = i
  /\ IF retryLoopGuard(i)
     THEN /\ rpc' = "attempt"
          /\ outcome' = outcome
     ELSE /\ rpc' = "thrown"
          /\ outcome' = [kind |-> "thrown",
                         error |-> IF err = Undefined
                                   THEN "Max retries exceeded" ELSE err]

(* retryWithBackoff is called (lines 38-40)                                *)
RetryStart ==
  /\ rpc = "idle"
  /\ lastError' = Undefined
  /\ Iterate(0, Undefined)
  /\ UNCHANGED <<attempts, sleeps>>
  /\ UNCHANGED <<disk, locales, now, passVars, trackerVars, translatorVars, overlapVars, requestVars, cacheVars>>

(* one call of fn settles (lines 41-50): it returns, or it throws and the  *)
(* loop sleeps before the next iteration unless this was the last one      *)
Settle(resp) ==
  /\ rpc = "attempt"
  /\ LET r == polyglotAttempt(resp)
     IN /\ attempts' = Append(attempts, r)
        /\ IF r.ok
           THEN /\ rpc' = "returned"
                /\ outcome' = [kind |-> "returned", value |-> r.value]
                /\ UNCHANGED <<ri, lastError, sleeps>>
           ELSE /\ lastError' = r.error
                /\ IF ri < maxRetries - 1
                   THEN /\ sleeps' = Append(sleeps, backoffDelay(ri))
                        /\ rpc' = "sleeping"
                        /\ UNCHANGED <<ri, outcome>>
                   ELSE /\ Iterate(ri + 1, r.error)
                        /\ UNCHANGED sleeps
  /\ UNCHANGED <<disk, locales, now, passVars, trackerVars, translatorVars,
                 overlapVars, cacheVars>>

(* one call of fn from its start to its end, whatever the request met      *)
Attempt(resp) ==
  /\ Settle(resp)
  /\ UNCHANGED requestVars

(* the sleep is over (line 48), next iteration of the loop                 *)
Wake ==
  /\ rpc = "sleeping"
  /\ Iterate(ri + 1, lastError)
  /\ UNCHANGED <<lastError, attempts, sleeps>>
  /\ UNCHANGED <<disk, locales, now, passVars, trackerVars, translatorVars, overlapVars, requestVars, cacheVars>>

NextRetry ==
  \/ RetryStart
  \/ \E resp \in Responses : Attempt(resp)
  \/ Wake

SpecRetry == Init /\ [][NextRetry]_vars

(***************************************************************************)
(* One request of PolyglotAPIAdapter.translateBatch in its steps: the      *)
(* timeout timer, fetch, and the read of the response body.                *)
(***************************************************************************)
NoResponse == [kind |-> "none", status |-> 0, body |-> ""]
AbortResponse == [kind |-> "abort", status |-> 0, body |-> ""]

(* the number of the attempt that is running                               *)
attemptNo == Len(attempts) + 1

(* fn is called (lines 44-78): the timer is set and fetch is started       *)
SendRequest ==
  /\ rpc = "attempt"
  /\ apc = "idle"
  /\ timers' = timers \cup {attemptNo}
  /\ apc' = "fetching"
  /\ overdue' = FALSE
  /\ UNCHANGED <<response, retryVars>>
  /\ UNCHANGED <<disk, locales, now, passVars, trackerVars, translatorVars,
                 overlapVars, cacheVars>>

(* fetch resolves with the response (lines 80-81): clearTimeout, then the  *)
(* body is awaited (response.json() at line 91 or 117)                     *)
FetchResolves(resp) ==
  /\ apc = "fetching"
  /\ resp.kind = "http"
  /\ timers' = timers \ {attemptNo}
  /\ apc' = "reading"
  /\ response' = resp
  /\ UNCHANGED <<overdue, retryVars>>
  /\ UNCHANGED <<disk, locales, now, passVars, trackerVars, translatorVars,
                 overlapVars, cacheVars>>

(* fetch rejects with a network error (lines 142-155): clearTimeout, and   *)
(* the error is thrown to retryWithBackoff                                 *)
FetchRejects(resp) ==
  /\ apc = "fetching"
  /\ resp.kind = "network"
  /\ timers' = timers \ {attemptNo}
  /\ apc' = "idle"
  /\ overdue' = FALSE
  /\ UNCHANGED response
  /\ Settle(resp)

(* the body has been read (lines 90-141): fn returns the translations or   *)
(* throws the error of the status                                          *)
BodyArrives ==
  /\ apc = "reading"
  /\ apc' = "idle"
  /\ overdue' = FALSE
  /\ response' = NoResponse
  /\ UNCHANGED timers
  /\ Settle(response)

(* the configured timeout has passed since the request was started: an     *)
(* armed timer runs controller.abort(), fetch rejects with an AbortError   *)
(* and the catch block throws the timeout error (lines 45, 142-154); a     *)
(* cleared timer does nothing                                              *)
TimeoutElapses ==
  /\ apc \in {"fetching", "reading"}
  /\ ~overdue
  /\ IF attemptNo \in timers
     THEN /\ timers' = timers \ {attemptNo}
          /\ apc' = "idle"
          /\ UNCHANGED <<overdue, response>>
          /\ Settle(AbortResponse)
     ELSE /\ overdue' = TRUE
          /\ UNCHANGED <<apc, timers, response, retryVars>>
          /\ UNCHANGED <<disk, locales, now, passVars, trackerVars,
                         translatorVars, overlapVars, cacheVars>>

NextRequest ==
  \/ RetryStart
  \/ SendRequest
  \/ \E resp \in Responses : FetchResolves(resp)
  \/ \E resp \in Responses : FetchRejects(resp)
  \/ BodyArrives
  \/ TimeoutElapses
  \/ Wake

SpecRequest == Init /\ [][NextRequest]_vars

(***************************************************************************)
(* The functions of translationTracker.ts called one after the other on a  *)
(* store, by any caller, with any arguments                                *)
(***************************************************************************)
TrackerTexts == {"", "a", "b"}

(* translated texts handed to updateTranslationStore: none, or one         *)
Translated == {"", "hola"}

(* detectChanges(currentTexts, store) is called                            *)
CallDetectChanges(currentTexts) ==
  /\ tcalls < MaxCalls
  /\ tcalls' = tcalls + 1
  /\ tlast' = [op |-> "detectChanges", currentTexts |-> currentTexts,
               store |-> tstore, result |-> detectChanges(currentTexts, tstore)]
  /\ UNCHANGED <<tstore, tclock>>
  /\ UNCHANGED <<disk, locales, now, passVars, retryVars, translatorVars, overlapVars, requestVars, cacheVars>>

(* updateTranslationStore(store, [text], {[text]: translated}, targetLang) *)
(* is called, elapsed ms after the previous call; repeat tells that the    *)
(* previous call was the same upsert                                       *)
CallUpdate(text, targetLang, translated, elapsed) ==
  /\ tcalls < MaxCalls
  /\ tcalls' = tcalls + 1
  /\ tclock' = tclock + elapsed
  /\ tstore' = updateTranslationStore(tstore, <<text>>,
                                      Put(EmptyMap, text, translated),
                                      targetLang, tclock')
  /\ tlast' = [op |-> "update", text |-> text, targetLang |-> targetLang,
               translated |-> translated, before |-> tstore,
               repeat |-> /\ tlast.op = "update"
                          /\ tlast.text = text
                          /\ tlast.targetLang = targetLang
                          /\ tlast.translated = translated]
  /\ UNCHANGED <<disk, locales, now, passVars, retryVars, translatorVars, overlapVars, requestVars, cacheVars>>

(* lists of current texts: every list of at most two texts, repetitions    *)
(* included, and every list of the three texts in any order                *)
CurrentTextLists ==
  SeqsUpTo(TrackerTexts, 2)
    \cup DistinctSeqs(TrackerTexts, Cardinality(TrackerTexts))

NextTracker ==
  \/ \E ts \in CurrentTextLists : CallDetectChanges(ts)
  \/ \E t \in TrackerTexts, l \in Langs, v \in Translated, d \in {0, 1} :
        CallUpdate(t, l, v, d)

SpecTracker == Init /\ [][NextTracker]_vars

(***************************************************************************)
(* Properties of the tracker functions                                     *)
(***************************************************************************)

(* C11: the three lists detectChanges returns partition the current texts: *)
(* every current text is in exactly one of newTexts, changedTexts and      *)
(* unchangedTexts, no list holds a text that is not current, and together  *)
(* the lists have as many elements as the list of current texts.           *)
C11_ChangesPartitionCurrent ==
  tlast.op = "detectChanges" =>
     LET r == tlast.result
         cur == Range(tlast.currentTexts)
         N == Range(r.newTexts)
         C == Range(r.changedTexts)
         U == Range(r.unchangedTexts)
     IN /\ N \cup C \cup U = cur
        /\ N \cap C = {} /\ N \cap U = {} /\ C \cap U = {}
        /\ Len(r.newTexts) + Len(r.changedTexts) + Len(r.unchangedTexts)
             = Len(tlast.currentTexts)

(* C11 witness: a call whose three lists are all non-empty.                *)
C11_Witness ==
  /\ tlast.op = "detectChanges"
  /\ tlast.result.newTexts # <<>>
  /\ tlast.result.changedTexts # <<>>
  /\ tlast.result.unchangedTexts # <<>>

(* C16 as claimed: when the call just made repeats the upsert of the call  *)
(* before it (same text, language and translated text), the store is what  *)
(* it was after the first of the two.                                      *)
C16_UpsertTwiceSameStore ==
  (tlast.op = "update" /\ tlast.repeat) => tstore = tlast.before

(* C16 amended: the repeated upsert leaves the store as it was after the   *)
(* first one except for lastTranslated of the record under the hash of the *)
(* text, which is the time of the repeated call: same keys, every other    *)
(* record equal, and the record itself equal in hash, text and             *)
(* translations.                                                           *)
C16_UpsertTwiceSameButTimestamp ==
  (tlast.op = "update" /\ tlast.repeat) =>
     LET h == generateTextHash(tlast.text)
     IN /\ DOMAIN tstore = DOMAIN tlast.before
        /\ \A k \in DOMAIN tstore \ {h} : tstore[k] = tlast.before[k]
        /\ tstore[h] = [tlast.before[h] EXCEPT !.lastTranslated = tclock]

(* C16 witness: an upsert was repeated at a later time on a store that     *)
(* holds a second record.                                                  *)
C16_Witness ==
  /\ tlast.op = "update" /\ tlast.repeat
  /\ Cardinality(DOMAIN tstore) = 2
  /\ tclock > tlast.before[generateTextHash(tlast.text)].lastTranslated

(* C17 as claimed: after the upsert of translated text v for text t and    *)
(* language L, the record under the hash of t has translations[L] = v.     *)
C17_UpsertThenGet ==
  tlast.op = "update" =>
     LET h == generateTextHash(tlast.text)
     IN /\ h \in DOMAIN tstore
        /\ tlast.targetLang \in DOMAIN tstore[h].translations
        /\ tstore[h].translations[tlast.targetLang] = tlast.translated

(* C17 amended: after the upsert the record under the hash of t has        *)
(* translations[L] = v when v is not empty, and translations[L] = t when   *)
(* v is the empty string.                                                  *)
C17_UpsertThenGetNonEmpty ==
  tlast.op = "update" =>
     LET h == generateTextHash(tlast.text)
     IN /\ h \in DOMAIN tstore
        /\ tlast.targetLang \in DOMAIN tstore[h].translations
        /\ tstore[h].translations[tlast.targetLang] =
             IF tlast.translated # "" THEN tlast.translated ELSE tlast.text

(* C17 witness: a non-empty translated text was recorded over another      *)
(* entry of the same language, on a record created for another text with   *)
(* the same hash.                                                          *)
C17_Witness ==
  /\ tlast.op = "update" /\ tlast.translated # ""
  /\ LET h == generateTextHash(tlast.text)
     IN /\ h \in DOMAIN tlast.before
        /\ tlast.before[h].text # tlast.text
        /\ tlast.targetLang \in DOMAIN tlast.before[h].translations
        /\ tlast.before[h].translations[tlast.targetLang] # tlast.translated
        /\ tstore[h].translations[tlast.targetLang] = tlast.translated

C8_RetryAtMostThrice ==
  /\ Len(attempts) <= 3
  /\ \A k \in 1..(Len(attempts) - 1) : ~attempts[k].ok
  /\ rpc = "returned" =>
       /\ attempts[Len(attempts)].ok
       /\ outcome = [kind |-> "returned",
                     value |-> attempts[Len(attempts)].value]
  /\ rpc = "thrown" =>
       /\ Len(attempts) = 3
       /\ ~attempts[3].ok
       /\ outcome = [kind |-> "thrown", error |-> attempts[3].error]
  /\ (rpc \in {"attempt", "sleeping"} /\ attempts # <<>>) =>
       ~attempts[Len(attempts)].ok

(* C8 witness: three calls failed with different errors and the last       *)
(* error was thrown.                                                       *)
C8_Witness ==
  /\ rpc = "thrown"
  /\ attempts[1].error # attempts[3].error
  /\ attempts[2].error # attempts[3].error

(* C9 as claimed: after each of the failed calls i = 0, 1, 2 the loop      *)
(* sleeps 1000 * 2^i ms.                                                   *)
C9_WaitAfterEveryFailure ==
  \A k \in DOMAIN attempts :
    ~attempts[k].ok =>
       (k \in DOMAIN sleeps /\ sleeps[k] = 1000 * (2 ^ (k - 1)))

(* C9 amended: after the failed calls i = 0 and i = 1 the loop sleeps      *)
(* 1000 * 2^i ms (1 s, then 2 s); after the third failed call there is no  *)
(* sleep, the error is thrown at once.                                     *)
C9_WaitsBetweenAttempts ==
  /\ \A k \in DOMAIN attempts :
       (~attempts[k].ok /\ k <= 2) =>
          (k \in DOMAIN sleeps /\ sleeps[k] = 1000 * (2 ^ (k - 1)))
  /\ Len(sleeps) <= 2
  /\ Len(sleeps) <= Len(attempts)
  /\ \A k \in DOMAIN sleeps : ~attempts[k].ok

(* C9 witness: all three calls failed; the sleeps were 1 s and 2 s.        *)
C9_Witness == rpc = "thrown" /\ sleeps = <<1000, 2000>>

(* C10: a call rejected by the backend with 401 or 402 is the last call:   *)
(* fn is not called again after it.                                        *)
C10_DefinitiveRejectionNotRetried ==
  \A k \in DOMAIN attempts :
    attempts[k].status \in {401, 402} => k = Len(attempts)


(***************************************************************************)
(* translator.ts: TranslatorImpl, its initialization and the cache.        *)
(* config.textToTranslate and the app version are fixed; the selected      *)
(* language changes.                                                       *)
(***************************************************************************)

(* config.textToTranslate                                                  *)
textToTranslate == <<"a">>

(* hashString(JSON.stringify(config.textToTranslate)) and getAppVersion()  *)
textsHash == "h1"
appVersion == "1.0.0"

(* getCacheKey: `translate_${targetLang}_${textsHash}_v${version}`         *)
getCacheKey(targetLang, hash, version) ==
  <<"translate", targetLang, hash, "v", version>>

(* what the adapter resolves translateBatch with, as the object kept in    *)
(* the translations map and in the cache: original -> translated           *)
batchResult(txts, targetLang) ==
  [t \in Range(txts) |-> Tr(t, targetLang)]

(* CacheManager.get: the cached value, or null                             *)
Null == [null |-> TRUE]
cacheGet(store, enabled, key) ==
  IF enabled /\ key \in DOMAIN store THEN store[key] ELSE Null

(* CacheManager.set: the NoOpCache of a disabled cache stores nothing      *)
cacheSet(store, enabled, key, value) ==
  IF enabled THEN Put(store, key, value) ELSE store

(* initialize(): with a promise held it returns that promise; otherwise it *)
(* starts doInitialize, which computes the cache key from currentLang and  *)
(* stops at await cacheManager.get(cacheKey)                               *)
startInit(promise, lang, runs) ==
  IF promise # 0
  THEN [initPromise |-> promise, inits |-> runs]
  ELSE [initPromise |-> Len(runs) + 1,
        inits |-> Append(runs, [at |-> "get", lang |-> "",
                                cacheKey |-> getCacheKey(lang, textsHash,
                                                         appVersion)])]

(* an earlier session left its translations for a language in the cache    *)
EarlierSession(lang) ==
  /\ ~created
  /\ getCacheKey(lang, textsHash, appVersion) \notin DOMAIN cache
  /\ cache' = Put(cache, getCacheKey(lang, textsHash, appVersion),
                  batchResult(textToTranslate, lang))
  /\ UNCHANGED <<created, cacheEnabled, currentLang, ready, error,
                 translationsMap, initPromise, inits, batchCalls, entered>>
  /\ UNCHANGED <<disk, locales, now, passVars, retryVars, trackerVars,
                 overlapVars, requestVars, cacheVars>>

(* createTranslator(config): the constructor sets the fields and calls     *)
(* initialize()                                                            *)
CreateTranslator(targetLang, enabled) ==
  /\ ~created
  /\ created' = TRUE
  /\ cacheEnabled' = enabled
  /\ currentLang' = targetLang
  /\ ready' = FALSE
  /\ error' = FALSE
  /\ translationsMap' = EmptyMap
  /\ LET st == startInit(0, targetLang, inits)
     IN initPromise' = st.initPromise /\ inits' = st.inits
  /\ entered' = entered + 1
  /\ UNCHANGED <<cache, batchCalls>>
  /\ UNCHANGED <<disk, locales, now, passVars, retryVars, trackerVars,
                 overlapVars, requestVars, cacheVars>>

(* initialize() is entered again on the instance                           *)
Initialize ==
  /\ created
  /\ entered < MaxInits
  /\ LET st == startInit(initPromise, currentLang, inits)
     IN initPromise' = st.initPromise /\ inits' = st.inits
  /\ entered' = entered + 1
  /\ UNCHANGED <<created, cacheEnabled, currentLang, ready, error,
                 translationsMap, cache, batchCalls>>
  /\ UNCHANGED <<disk, locales, now, passVars, retryVars, trackerVars,
                 overlapVars, requestVars, cacheVars>>

(* changeLanguage(lang) up to its await: a no-op for the current language, *)
(* otherwise the fields are reset, initPromise is cleared and initialize() *)
(* is called                                                               *)
ChangeLanguage(lang) ==
  /\ created
  /\ lang # currentLang
  /\ entered < MaxInits
  /\ currentLang' = lang
  /\ ready' = FALSE
  /\ error' = FALSE
  /\ translationsMap' = EmptyMap
  /\ LET st == startInit(0, lang, inits)
     IN initPromise' = st.initPromise /\ inits' = st.inits
  /\ entered' = entered + 1
  /\ UNCHANGED <<created, cacheEnabled, cache, batchCalls>>
  /\ UNCHANGED <<disk, locales, now, passVars, retryVars, trackerVars,
                 overlapVars, requestVars, cacheVars>>

(* doInitialize after await cacheManager.get(cacheKey): on a hit the       *)
(* cached object becomes the translations and the run ends; on a miss      *)
(* adapter.translateBatch is called with this.currentLang                  *)
CacheGetResolves(i) ==
  /\ i \in DOMAIN inits
  /\ inits[i].at = "get"
  /\ LET cached == cacheGet(cache, cacheEnabled, inits[i].cacheKey)
     IN IF cached # Null
        THEN /\ translationsMap' = cached
             /\ ready' = TRUE
             /\ inits' = [inits EXCEPT ![i].at = "done"]
             /\ UNCHANGED batchCalls
        ELSE /\ inits' = [inits EXCEPT ![i].at = "batch",
                                       ![i].lang = currentLang]
             /\ batchCalls' = Append(batchCalls,
                                     [init |-> i, lang |-> currentLang])
             /\ UNCHANGED <<translationsMap, ready>>
  /\ UNCHANGED <<created, cacheEnabled, currentLang, error, initPromise,
                 cache, entered>>
  /\ UNCHANGED <<disk, locales, now, passVars, retryVars, trackerVars,
                 overlapVars, requestVars, cacheVars>>

(* adapter.translateBatch resolves: the results are set in the             *)
(* translations map, and the whole map is written to the cache under the   *)
(* run's cache key (the synchronous part of cacheManager.set)              *)
BatchResolves(i) ==
  /\ i \in DOMAIN inits
  /\ inits[i].at = "batch"
  /\ LET results == batchResult(textToTranslate, inits[i].lang)
         updated == [t \in DOMAIN translationsMap \cup DOMAIN results |->
                       IF t \in DOMAIN results THEN results[t]
                       ELSE translationsMap[t]]
     IN /\ translationsMap' = updated
        /\ cache' = cacheSet(cache, cacheEnabled, inits[i].cacheKey, updated)
  /\ inits' = [inits EXCEPT ![i].at = "set"]
  /\ UNCHANGED <<created, cacheEnabled, currentLang, ready, error,
                 initPromise, batchCalls, entered>>
  /\ UNCHANGED <<disk, locales, now, passVars, retryVars, trackerVars,
                 overlapVars, requestVars, cacheVars>>

(* doInitialize after await cacheManager.set(...)                          *)
CacheSetResolves(i) ==
  /\ i \in DOMAIN inits
  /\ inits[i].at = "set"
  /\ ready' = TRUE
  /\ inits' = [inits EXCEPT ![i].at = "done"]
  /\ UNCHANGED <<created, cacheEnabled, currentLang, error, translationsMap,
                 initPromise, cache, batchCalls, entered>>
  /\ UNCHANGED <<disk, locales, now, passVars, retryVars, trackerVars,
                 overlapVars, requestVars, cacheVars>>

(* adapter.translateBatch rejects: the catch block keeps the error         *)
BatchRejects(i) ==
  /\ i \in DOMAIN inits
  /\ inits[i].at = "batch"
  /\ error' = TRUE
  /\ inits' = [inits EXCEPT ![i].at = "failed"]
  /\ UNCHANGED <<created, cacheEnabled, currentLang, ready, translationsMap,
                 initPromise, cache, batchCalls, entered>>
  /\ UNCHANGED <<disk, locales, now, passVars, retryVars, trackerVars,
                 overlapVars, requestVars, cacheVars>>

(* the ttl of a cache entry runs out: get removes it and returns null      *)
CacheExpires(key) ==
  /\ key \in DOMAIN cache
  /\ cache' = Restrict(cache, DOMAIN cache \ {key})
  /\ UNCHANGED <<created, cacheEnabled, currentLang, ready, error,
                 translationsMap, initPromise, inits, batchCalls, entered>>
  /\ UNCHANGED <<disk, locales, now, passVars, retryVars, trackerVars,
                 overlapVars, requestVars, cacheVars>>

NextTranslator ==
  \/ \E lang \in Langs : EarlierSession(lang)
  \/ \E targetLang \in Langs, enabled \in BOOLEAN :
       CreateTranslator(targetLang, enabled)
  \/ Initialize
  \/ \E lang \in Langs : ChangeLanguage(lang)
  \/ \E i \in 1..MaxInits : CacheGetResolves(i)
  \/ \E i \in 1..MaxInits : BatchResolves(i)
  \/ \E i \in 1..MaxInits : CacheSetResolves(i)
  \/ \E i \in 1..MaxInits : BatchRejects(i)
  \/ \E key \in DOMAIN cache : CacheExpires(key)

SpecTranslator == Init /\ [][NextTranslator]_vars

(***************************************************************************)
(* Properties of the translator.                                           *)
(***************************************************************************)

(* the runs of doInitialize whose adapter.translateBatch call for the      *)
(* language is in flight                                                   *)
BatchInFlight(lang) ==
  {i \in DOMAIN inits : inits[i].at = "batch" /\ inits[i].lang = lang}

(* C26: at no time are two adapter.translateBatch calls of initialization  *)
(* in flight for the selected language, and no such call is issued for a   *)
(* language while the cache holds an unexpired entry for that language,    *)
(* the text set and the app version.                                       *)
C26_SingleBatchCallAtStartup ==
  /\ [](Cardinality(BatchInFlight(currentLang)) <= 1)
  /\ [][Len(batchCalls') > Len(batchCalls) =>
          cacheGet(cache, cacheEnabled,
                   getCacheKey(batchCalls'[Len(batchCalls')].lang,
                               textsHash, appVersion)) = Null]_vars


(* every run of doInitialize has ended                                     *)
AllSettled == \A i \in DOMAIN inits : inits[i].at \in {"done", "failed"}

(* C35: after changeLanguage, once every run of doInitialize has ended,    *)
(* the translations held are results for the current language, the         *)
(* translator is ready only if the run started for the current language    *)
(* succeeded, and it holds an error only if that run failed.               *)
C35_OnlyCurrentLanguageAfterChange ==
  (created /\ Len(inits) >= 2 /\ AllSettled) =>
     /\ \A t \in DOMAIN translationsMap :
          translationsMap[t] = Tr(t, currentLang)
     /\ ready => inits[initPromise].at = "done"
     /\ error => inits[initPromise].at = "failed"

(***************************************************************************)
(* Two overlapping passes. performExtraction is started in the background  *)
(* by handleHotUpdate without waiting for a pass that is still running:    *)
(* a second invocation of autoTranslate, with the same configuration and   *)
(* store path, runs its own synchronous stretches between those of the     *)
(* first. Its local variables carry the suffix B.                          *)
(***************************************************************************)

(* nextCall for the second pass                                            *)
RECURSIVE nextCallB(_, _, _)
nextCallB(store, from, need) ==
  IF from > Len(ConfiguredLangs) THEN from
  ELSE IF /\ ConfiguredLangs[from] \in Range(need)
          /\ textsNeedingTranslation(textsB, store, ConfiguredLangs[from])
               # <<>>
       THEN from
       ELSE nextCallB(store, from + 1, need)

(* handleHotUpdate while a pass is running: performExtraction writes the   *)
(* texts file and invokes autoTranslate, which loads the store (lines      *)
(* 51-52)                                                                  *)
BeginB(ts) ==
  /\ pcB = "idle"
  /\ pc \notin {"idle", "done"}
  /\ textsB' = ts
  /\ memB' = loadTranslationStore(disk)
  /\ pcB' = "import"
  /\ UNCHANGED <<changesB, needingB, idxB, workB, batchB, returnedB, savedB>>
  /\ UNCHANGED <<disk, locales, now, passVars, retryVars, trackerVars,
                 translatorVars, requestVars, cacheVars>>

(* the language loop of the second pass up to its next adapter call, or    *)
(* cleanup, save and the call of exportTranslations (as Advance)           *)
AdvanceB(store, from, need, chg) ==
  LET j == nextCallB(store, from, need)
  IN IF j <= Len(ConfiguredLangs)
     THEN LET w == textsNeedingTranslation(textsB, store, ConfiguredLangs[j])
          IN /\ pcB' = "awaiting"
             /\ idxB' = j
             /\ workB' = w
             /\ batchB' = textsToTranslateObj(w)
             /\ memB' = store
             /\ UNCHANGED <<disk, savedB>>
     ELSE LET cleaned == IF chg.deletedHashes # {}
                         THEN cleanupDeletedTexts(store, chg.deletedHashes)
                         ELSE store
          IN /\ pcB' = "exporting"
             /\ idxB' = j
             /\ workB' = <<>>
             /\ batchB' = EmptyMap
             /\ memB' = cleaned
             /\ \E writeOk \in BOOLEAN :
                  /\ disk' = IF writeOk
                             THEN [exists |-> TRUE, fault |-> "none",
                                   metadata |-> cleaned]
                             ELSE disk
                  /\ savedB' = IF writeOk THEN "ok" ELSE "failed"

(* a return statement of the second pass before the language loop          *)
ReturnEarlyB ==
  /\ pcB' = "done"
  /\ UNCHANGED <<disk, memB, idxB, workB, batchB, savedB>>

(* lines 54-128 in the second pass (as ReadTexts)                          *)
ReadTextsB ==
  /\ pcB = "import"
  /\ IF Len(textsB) = 0
     THEN ReturnEarlyB /\ UNCHANGED <<changesB, needingB>>
     ELSE LET chg == detectChanges(textsB, memB)
              need == languagesNeedingTranslation(textsB, memB,
                                                  ConfiguredLangs)
          IN /\ changesB' = chg
             /\ needingB' = need
             /\ IF needsTranslation(chg, need)
                THEN AdvanceB(memB, 1, need, chg)
                ELSE ReturnEarlyB
  /\ UNCHANGED <<textsB, returnedB>>
  /\ UNCHANGED <<locales, now, passVars, retryVars, trackerVars,
                 translatorVars, requestVars, cacheVars>>

(* adapter.translateBatch of the second pass resolves (as AdapterResolve)  *)
AdapterResolveB(answered) ==
  /\ pcB = "awaiting"
  /\ LET targetLang == ConfiguredLangs[idxB]
         answer == [k \in answered |-> Tr(batchB[k], targetLang)]
         translations == polyglotResult(batchB, answer)
         rest == SelectSeq(textsB, LAMBDA t : t \notin Range(workB))
         existing == getExistingTranslations(rest, memB, targetLang)
         tmap == translationMap(existing, translations)
         updated == updateTranslationStore(memB, workB, tmap, targetLang, now)
     IN /\ returnedB' = Put(returnedB, targetLang, translations)
        /\ AdvanceB(updated, idxB + 1, needingB, changesB)
  /\ UNCHANGED <<textsB, changesB, needingB>>
  /\ UNCHANGED <<locales, now, passVars, retryVars, trackerVars,
                 translatorVars, requestVars, cacheVars>>

(* adapter.translateBatch of the second pass rejects (as AdapterReject)    *)
AdapterRejectB ==
  /\ pcB = "awaiting"
  /\ AdvanceB(memB, idxB + 1, needingB, changesB)
  /\ UNCHANGED <<textsB, changesB, needingB, returnedB>>
  /\ UNCHANGED <<locales, now, passVars, retryVars, trackerVars,
                 translatorVars, requestVars, cacheVars>>

(* exportTranslations of the second pass (as Export)                       *)
ExportB ==
  /\ pcB = "exporting"
  /\ LET store == loadTranslationStore(disk)
     IN locales' = [l \in Range(ConfiguredLangs) |-> exportOne(store, l)]
  /\ pcB' = "done"
  /\ UNCHANGED <<textsB, memB, changesB, needingB, idxB, workB, batchB,
                 returnedB, savedB>>
  /\ UNCHANGED <<disk, now, passVars, retryVars, trackerVars, translatorVars, requestVars, cacheVars>>

NextOverlap ==
  \/ \E ts \in TextLists : now = 0 /\ Begin(ts, ConfiguredLangs, TRUE)
  \/ ReadTexts
  \/ \E answered \in BackendAnswers(batch) : AdapterResolve(answered)
  \/ AdapterReject
  \/ Export
  \/ \E ts \in TextLists : BeginB(ts)
  \/ ReadTextsB
  \/ \E answered \in BackendAnswers(batchB) : AdapterResolveB(answered)
  \/ AdapterRejectB
  \/ ExportB

SpecOverlap == Init /\ [][NextOverlap]_vars

(***************************************************************************)
(* Properties of two overlapping passes.                                   *)
(***************************************************************************)

(* the translated texts a pass obtained from the adapter for a string and  *)
(* a language                                                              *)
Obtained(ret, t, l) ==
  IF l \in DOMAIN ret THEN {r.translated : r \in {x \in ret[l] : x.original = t}}
  ELSE {}

(* C25: once two overlapping passes have both finished, with no save       *)
(* failed, the store file holds, for every string of the latest texts file *)
(* and every language, each translation either pass obtained for it.       *)
C25_NoUpdateLostByOverlap ==
  (pc = "done" /\ pcB = "done" /\ saved # "failed" /\ savedB # "failed") =>
     \A t \in Range(textsB) :
       \A l \in Langs :
         \A v \in Obtained(returned, t, l) \cup Obtained(returnedB, t, l) :
           /\ generateTextHash(t) \in DOMAIN disk.metadata
           /\ l \in DOMAIN disk.metadata[generateTextHash(t)].translations
           /\ disk.metadata[generateTextHash(t)].translations[l] = v


(***************************************************************************)
(* Properties of the request timeout.                                      *)
(***************************************************************************)

(* C32: no request in flight has lasted longer than the timeout; the only  *)
(* timer armed is that of the attempt whose fetch is pending; and an       *)
(* attempt ended by the timeout is a failed attempt, after which the loop  *)
(* sleeps before the next attempt while attempts remain and throws         *)
(* otherwise.                                                              *)
C32_TimeoutAbortsAndIsRetried ==
  /\ [](apc # "idle" => ~overdue)
  /\ [](timers \subseteq IF apc = "fetching" THEN {attemptNo} ELSE {})
  /\ [][(/\ Len(attempts') = Len(attempts) + 1
         /\ attempts'[Len(attempts')].error = "Polyglot API request timeout")
        => /\ ~attempts'[Len(attempts')].ok
           /\ rpc' = IF ri < maxRetries - 1 THEN "sleeping" ELSE "thrown"]_vars


(***************************************************************************)
(* The browser caches: LocalStorageCache (synchronous) and IndexedDBCache  *)
(* (every method awaits the database).                                     *)
(***************************************************************************)
CacheKeys == {"k"}
CacheValues == {"v1", "v2"}
Ttls == {0, 1}

(* LocalStorageCache.getKey: `${prefix}_${key}`; IndexedDB uses the key    *)
storageKey(kind, key) ==
  IF kind = "localStorage" THEN <<"react_translate_ai", key>> ELSE <<key>>

(* JSON.stringify and JSON.parse of a CachedData object                    *)
jsonStringify(data) == <<"json", data.value, data.timestamp, data.ttl>>
jsonParse(item) == [value |-> item[2], timestamp |-> item[3], ttl |-> item[4]]

(* what the storage holds for a CachedData object, and back: localStorage  *)
(* holds its JSON text, IndexedDB the object                               *)
toItem(kind, data) == IF kind = "localStorage" THEN jsonStringify(data) ELSE data
fromItem(kind, item) == IF kind = "localStorage" THEN jsonParse(item) ELSE item

(* isDataExpired, at time t                                                *)
isDataExpired(data, t) == t - data.timestamp > data.ttl

(* what get returns: the value, or null                                    *)
Hit(key, value) == [key |-> key, hit |-> TRUE, value |-> value]
Miss(key) == [key |-> key, hit |-> FALSE, value |-> ""]

(* the value get(key) returns at time t from a storage nobody else works   *)
(* on                                                                      *)
getResult(kind, store, key, t) ==
  LET k == storageKey(kind, key)
  IN IF k \notin DOMAIN store THEN Miss(key)
     ELSE IF isDataExpired(fromItem(kind, store[k]), t) THEN Miss(key)
     ELSE Hit(key, fromItem(kind, store[k]).value)

(* LocalStorageCache.clearExpired                                          *)
clearExpired(kind, store, t) ==
  Restrict(store, {k \in DOMAIN store : ~isDataExpired(fromItem(kind, store[k]), t)})

(* CacheManager.createCache                                                *)
CreateCache(kind) ==
  /\ ckind = "none"
  /\ ckind' = kind
  /\ UNCHANGED <<entries, clock, lastSet, gpc, gkey, glast, spc, sdata>>
  /\ UNCHANGED <<disk, locales, now, passVars, retryVars, trackerVars,
                 translatorVars, overlapVars, requestVars>>

(* time passes                                                             *)
Tick ==
  /\ ckind # "none"
  /\ clock < MaxClock
  /\ clock' = clock + 1
  /\ UNCHANGED <<ckind, entries, lastSet, gpc, gkey, glast, spc, sdata>>
  /\ UNCHANGED <<disk, locales, now, passVars, retryVars, trackerVars,
                 translatorVars, overlapVars, requestVars>>

(* LocalStorageCache.set: setItem, or on its failure clearExpired          *)
LocalStorageSet(key, value, ttl, writeOk) ==
  /\ ckind = "localStorage"
  /\ LET data == [value |-> value, timestamp |-> clock, ttl |-> ttl]
     IN IF writeOk
        THEN /\ entries' = Put(entries, storageKey(ckind, key),
                               toItem(ckind, data))
             /\ lastSet' = Put(lastSet, key, data)
        ELSE /\ entries' = clearExpired(ckind, entries, clock)
             /\ UNCHANGED lastSet
  /\ UNCHANGED <<ckind, clock, gpc, gkey, glast, spc, sdata>>
  /\ UNCHANGED <<disk, locales, now, passVars, retryVars, trackerVars,
                 translatorVars, overlapVars, requestVars>>

(* LocalStorageCache.get: an expired item is removed                       *)
LocalStorageGet(key) ==
  /\ ckind = "localStorage"
  /\ LET k == storageKey(ckind, key)
     IN /\ glast' = getResult(ckind, entries, key, clock)
        /\ entries' = IF /\ k \in DOMAIN entries
                         /\ isDataExpired(fromItem(ckind, entries[k]), clock)
                      THEN Restrict(entries, DOMAIN entries \ {k})
                      ELSE entries
  /\ UNCHANGED <<ckind, clock, lastSet, gpc, gkey, spc, sdata>>
  /\ UNCHANGED <<disk, locales, now, passVars, retryVars, trackerVars,
                 translatorVars, overlapVars, requestVars>>

(* IndexedDBCache.set up to its await: the CachedData object is built      *)
IndexedDBSet(key, value, ttl) ==
  /\ ckind = "indexedDB"
  /\ spc = "idle"
  /\ spc' = "putting"
  /\ sdata' = [key |-> key,
               data |-> [value |-> value, timestamp |-> clock, ttl |-> ttl]]
  /\ UNCHANGED <<ckind, entries, clock, lastSet, gpc, gkey, glast>>
  /\ UNCHANGED <<disk, locales, now, passVars, retryVars, trackerVars,
                 translatorVars, overlapVars, requestVars>>

(* db.put of IndexedDBCache.set is carried out, or fails and is logged     *)
IndexedDBPut(putOk) ==
  /\ spc = "putting"
  /\ spc' = "idle"
  /\ sdata' = [op |-> "none"]
  /\ IF putOk
     THEN /\ entries' = Put(entries, storageKey(ckind, sdata.key),
                            toItem(ckind, sdata.data))
          /\ lastSet' = Put(lastSet, sdata.key, sdata.data)
     ELSE UNCHANGED <<entries, lastSet>>
  /\ UNCHANGED <<ckind, clock, gpc, gkey, glast>>
  /\ UNCHANGED <<disk, locales, now, passVars, retryVars, trackerVars,
                 translatorVars, overlapVars, requestVars>>

(* IndexedDBCache.get is called and awaits the database                    *)
IndexedDBGet(key) ==
  /\ ckind = "indexedDB"
  /\ gpc = "idle"
  /\ gpc' = "reading"
  /\ gkey' = key
  /\ UNCHANGED <<ckind, entries, clock, lastSet, glast, spc, sdata>>
  /\ UNCHANGED <<disk, locales, now, passVars, retryVars, trackerVars,
                 translatorVars, overlapVars, requestVars>>

(* db.get of IndexedDBCache.get has read: no data or live data is          *)
(* returned, for expired data db.delete is awaited first                   *)
IndexedDBRead ==
  /\ gpc = "reading"
  /\ LET k == storageKey(ckind, gkey)
     IN IF /\ k \in DOMAIN entries
           /\ isDataExpired(fromItem(ckind, entries[k]), clock)
        THEN /\ gpc' = "deleting"
             /\ UNCHANGED glast
        ELSE /\ gpc' = "idle"
             /\ glast' = getResult(ckind, entries, gkey, clock)
  /\ UNCHANGED <<ckind, entries, clock, lastSet, gkey, spc, sdata>>
  /\ UNCHANGED <<disk, locales, now, passVars, retryVars, trackerVars,
                 translatorVars, overlapVars, requestVars>>

(* db.delete of IndexedDBCache.get is carried out and get returns null     *)
IndexedDBDelete ==
  /\ gpc = "deleting"
  /\ gpc' = "idle"
  /\ entries' = Restrict(entries,
                         DOMAIN entries \ {storageKey(ckind, gkey)})
  /\ glast' = Miss(gkey)
  /\ UNCHANGED <<ckind, clock, lastSet, gkey, spc, sdata>>
  /\ UNCHANGED <<disk, locales, now, passVars, retryVars, trackerVars,
                 translatorVars, overlapVars, requestVars>>

NextCache ==
  \/ \E kind \in {"localStorage", "indexedDB"} : CreateCache(kind)
  \/ Tick
  \/ \E key \in CacheKeys, value \in CacheValues, ttl \in Ttls,
        writeOk \in BOOLEAN : LocalStorageSet(key, value, ttl, writeOk)
  \/ \E key \in CacheKeys : LocalStorageGet(key)
  \/ \E key \in CacheKeys, value \in CacheValues, ttl \in Ttls :
        IndexedDBSet(key, value, ttl)
  \/ \E putOk \in BOOLEAN : IndexedDBPut(putOk)
  \/ \E key \in CacheKeys : IndexedDBGet(key)
  \/ IndexedDBRead
  \/ IndexedDBDelete

SpecCache == Init /\ [][NextCache]_vars

(***************************************************************************)
(* Properties of the browser caches.                                       *)
(***************************************************************************)

(* what get(key) is to return now: the value of the last set of the key    *)
(* if its ttl has not run out, null otherwise                              *)
ExpectedGet(key) ==
  IF /\ key \in DOMAIN lastSet
     /\ clock - lastSet[key].timestamp <= lastSet[key].ttl
  THEN Hit(key, lastSet[key].value)
  ELSE Miss(key)

(* C36: whenever no cache operation is in progress, get(key) returns the   *)
(* value of the last set of the key if the time since that set is at most  *)
(* its ttl, and null otherwise; and a get that returns null leaves no      *)
(* entry for the key.                                                      *)
C36_GetReturnsUnexpiredSetValue ==
  /\ []((ckind # "none" /\ gpc = "idle" /\ spc = "idle") =>
          \A key \in CacheKeys :
            getResult(ckind, entries, key, clock) = ExpectedGet(key))
  /\ [][(glast' # glast /\ ~glast'.hit) =>
          storageKey(ckind, glast'.key) \notin DOMAIN entries']_vars

====
